---------------------------- MODULE Spec2Model ----------------------------
(***************************************************************************)
(* A model of the MCP-over-MQTT server engine (McpServer, JsonRpc) of the  *)
(* mcp-over-mqtt-cpp-sdk repository.                                       *)
(*                                                                         *)
(* Representation.  A C++ std::string that takes part in a topic is a      *)
(* non-empty sequence of topic levels: "demo/calc" is <<"demo","calc">>    *)
(* and the empty string is <<"">>, so that a + "/" + b is a \o b and a     *)
(* prefix test or a find('/') is a test on the sequence.  Server ids and   *)
(* client ids are single levels.  A JSON value is a tagged record, a       *)
(* JsonRpcId a tagged record of the variant's alternative.                 *)
(***************************************************************************)
EXTENDS Integers, Sequences, FiniteSets, TLC

\* ------------------------------------------------------------------ bounds

\* Sessions created in one run of the model (each initialize that stores a
\* session takes the next session number).
MaxSessions == 2

\* Successful start() calls in one run of the model.
MaxStarts == 2

\* Width, in bits, of the model's int64_t / uint64_t (the program's is 64).
IntBits == 4

RECURSIVE Pow2(_)
Pow2(n) == IF n = 0 THEN 1 ELSE 2 * Pow2(n - 1)
IntMin == 0 - Pow2(IntBits - 1)
IntMax == Pow2(IntBits - 1) - 1
UIntMax == Pow2(IntBits) - 1

\* ------------------------------------------------------- program constants

MCP_SERVER_PREFIX == <<"$mcp-server">>
MCP_CLIENT_PREFIX == <<"$mcp-client">>
MCP_RPC_PREFIX == <<"$mcp-rpc">>
CLIENT_PRESENCE_PREFIX == <<"$mcp-client", "presence">>
JSONRPC_VERSION == "2.0"
MCP_PROTOCOL_VERSION == "2024-11-05"
COMPONENT_TYPE_SERVER == "mcp-server"
PARSE_ERROR == -32700
INVALID_REQUEST == -32600
METHOD_NOT_FOUND == -32601
INVALID_PARAMS == -32602

EmptyStr == <<"">>

\* ------------------------------------------------------------- JSON values

JAbsent == [t |-> "absent", n |-> 0, s |-> ""]
JNull == [t |-> "null", n |-> 0, s |-> ""]
JNum(v) == [t |-> "num", n |-> v, s |-> ""]
JFloat == [t |-> "float", n |-> 0, s |-> ""]
JStr(v) == [t |-> "str", n |-> 0, s |-> v]

\* A JSON number the parser keeps as number_integer or number_unsigned:
\* an integer literal in [INT64_MIN, UINT64_MAX] (json::is_number_integer()).
is_number_integer(j) == j.t = "num" /\ j.n >= IntMin /\ j.n <= UIntMax

\* json::get<int64_t>(): a number_unsigned above INT64_MAX is cast to the
\* signed type and wraps.
get_int64(j) == IF j.n > IntMax THEN j.n - Pow2(IntBits) ELSE j.n

IdMono == [t |-> "monostate", n |-> 0, s |-> ""]
IdInt(v) == [t |-> "int64", n |-> v, s |-> ""]
IdStr(v) == [t |-> "string", n |-> 0, s |-> v]

jsonToId(j) ==
    IF j.t = "null" THEN IdMono
    ELSE IF is_number_integer(j) THEN IdInt(get_int64(j))
    ELSE IF j.t = "str" THEN IdStr(j.s)
    ELSE IdMono

idToJson(id) ==
    IF id.t = "monostate" THEN JNull
    ELSE IF id.t = "int64" THEN JNum(id.n)
    ELSE JStr(id.s)

\* ------------------------------------------------------------------ topics

\* topic.rfind(prefix + "/", 0) == 0, and topic.find(prefix + "/") == 0
StartsWith(topic, prefix) ==
    /\ Len(topic) > Len(prefix)
    /\ SubSeq(topic, 1, Len(prefix)) = prefix

isMcpTopic(topic) ==
    \/ StartsWith(topic, MCP_SERVER_PREFIX)
    \/ StartsWith(topic, MCP_CLIENT_PREFIX)
    \/ StartsWith(topic, MCP_RPC_PREFIX)

ControlTopicOf(sid, sname) == <<"$mcp-server">> \o sid \o sname
PresenceTopicOf(sid, sname) == <<"$mcp-server", "presence">> \o sid \o sname
RpcTopicOf(c, sid, sname) == <<"$mcp-rpc">> \o c \o sid \o sname
ClientPresenceTopicOf(c) == <<"$mcp-client", "presence">> \o c

NoClient == [ok |-> FALSE, v |-> EmptyStr]

\* Mutant of parseClientIdFromRpcTopic: the level after the client id.
parseClientIdFromRpcTopic_Next(topic) ==
    IF ~StartsWith(topic, MCP_RPC_PREFIX) THEN NoClient
    ELSE LET rest == SubSeq(topic, 2, Len(topic))
         IN  IF Len(rest) < 2 THEN NoClient
             ELSE [ok |-> TRUE, v |-> <<rest[2]>>]

parseClientIdFromRpcTopic(topic) ==
    IF ~StartsWith(topic, MCP_RPC_PREFIX) THEN NoClient
    ELSE LET rest == SubSeq(topic, 2, Len(topic))
         IN  IF Len(rest) < 2 THEN NoClient
             ELSE [ok |-> TRUE, v |-> <<rest[1]>>]

parseClientIdFromPresenceTopic(topic) ==
    IF ~StartsWith(topic, CLIENT_PRESENCE_PREFIX) THEN NoClient
    ELSE [ok |-> TRUE, v |-> SubSeq(topic, 3, Len(topic))]

\* ------------------------------------------------------- inbound messages

\* params of a request: mcpClientId is absent, a string (v) or a number.
NoParams == [has |-> FALSE, mcpClientId |-> [t |-> "absent", v |-> EmptyStr],
             protocolVersion |-> JAbsent, name |-> JAbsent]
Params(cid, ver, name) == [has |-> TRUE, mcpClientId |-> cid,
                           protocolVersion |-> ver, name |-> name]
PNoId == [t |-> "absent", v |-> EmptyStr]
PId(c) == [t |-> "str", v |-> c]
PNumId == [t |-> "num", v |-> EmptyStr]

\* A payload: the empty string, text that is no JSON, JSON that is no object,
\* or a JSON object with these members.
Obj(ver, id, method, params) ==
    [kind |-> "object", jsonrpc |-> ver, id |-> id, method |-> method, params |-> params]
PayloadOf(kind) ==
    [kind |-> kind, jsonrpc |-> "absent", id |-> JAbsent, method |-> JAbsent, params |-> NoParams]
Request(id, method, params) == Obj(JSONRPC_VERSION, id, JStr(method), params)
Notification(method) == Obj(JSONRPC_VERSION, JAbsent, JStr(method), NoParams)

NoProp == [has |-> FALSE, v |-> EmptyStr]
Prop(c) == [has |-> TRUE, v |-> c]

\* MqttIncomingMessage: topic, payload and the MCP-MQTT-CLIENT-ID user
\* property.  chan and x are not part of the message: they record the channel
\* the sender used and the client the message is for.
Msg(chan, x, topic, prop, payload) ==
    [chan |-> chan, x |-> x, topic |-> topic, prop |-> prop, payload |-> payload]

NoMsg == Msg("none", EmptyStr, <<"">>, NoProp, PayloadOf("empty"))

\* ------------------------------------------------------------------- state

VARIABLES
    running,         \* McpServer::running_
    mqttClient,      \* McpServer::mqttClient_ is not null
    serverId,        \* McpServer::serverId_
    serverName,      \* McpServer::serverName_
    clientSessions,  \* McpServer::clientSessions_: client id -> ClientSession
    tools,           \* ToolManager::tools_: tool name -> Tool
    handlers,        \* ToolManager::handlers_: tool name -> ToolHandler
    mutex,           \* ToolManager::mutex_: "free", or the thread that holds it
    connected,       \* the transport's isConnected()
    handlerSet,      \* the transport's message-handler slot holds the engine's handler
    lostCbSet,       \* the transport's connection-lost slot holds the engine's callback
    subs,            \* the subscriptions the transport holds for the engine
    retained,        \* last retained payload published, per topic
    api,             \* the embedder's thread: the start()/stop() call in progress or last returned
    th,              \* the transport's delivery threads: position and locals of the handler call
    out,             \* per thread, what its current (or last) call did, in order
    sessionSeq,      \* sessions stored so far
    starts,          \* successful start() calls so far
    phase,           \* "new", "started" once start() returned true, "stopped" once stop() returned
    fault            \* the process dereferenced a null transport pointer

vars == <<running, mqttClient, serverId, serverName, clientSessions, tools, handlers, mutex, connected,
          handlerSet, lostCbSet, subs, retained, api, th, out, sessionSeq, starts, phase, fault>>

Threads == {"d1", "d2"}

\* ------------------------------------------------------ JSON-RPC envelopes

\* JsonRpc::parse: nlohmann::json::parse succeeded
parse(payload) == payload.kind \in {"nonobject", "object"}

\* json::contains(key), false on a value that is no object
contains(payload, key) ==
    /\ payload.kind = "object"
    /\ CASE key = "jsonrpc" -> payload.jsonrpc # "absent"
         [] key = "id" -> payload.id.t # "absent"
         [] key = "method" -> payload.method.t # "absent"
         [] OTHER -> payload.params.has

NoRequest == [ok |-> FALSE, id |-> IdMono, method |-> "", params |-> NoParams]

fromJson(j) ==
    IF ~contains(j, "jsonrpc") \/ j.jsonrpc # JSONRPC_VERSION THEN NoRequest
    ELSE IF ~contains(j, "method") \/ j.method.t # "str" THEN NoRequest
    ELSE [ok |-> TRUE,
          id |-> IF contains(j, "id") THEN jsonToId(j.id) ELSE IdMono,
          method |-> j.method.s,
          params |-> j.params]

\* The JSON of a response (JsonRpcResponse::toJson) or a notification
\* (JsonRpcNotification::toJson); what names the result's or params' content.
\* isError: the result is a ToolCallResult whose toJson() wrote "isError": true.
\* protocolVersion: the result's "protocolVersion" member, "" when it has none.
NoBody == [kind |-> "none", id |-> JAbsent, code |-> 0, what |-> "", isError |-> FALSE,
           protocolVersion |-> ""]
success(id, what) ==
    [kind |-> "result", id |-> idToJson(id), code |-> 0, what |-> what, isError |-> FALSE,
     protocolVersion |-> ""]
errorResponse(id, code) ==
    [kind |-> "error", id |-> idToJson(id), code |-> code, what |-> "", isError |-> FALSE,
     protocolVersion |-> ""]
create(method) ==
    [kind |-> "notification", id |-> JAbsent, code |-> 0, what |-> method, isError |-> FALSE,
     protocolVersion |-> ""]

\* The response handleInitialize builds: protocolVersion, and the capabilities
\* and serverInfo the server was configured with ("initialize").
initializeResult(id) ==
    [success(id, "initialize") EXCEPT !.protocolVersion = MCP_PROTOCOL_VERSION]

\* --------------------------------------------------------------- dispatch

getControlTopic == ControlTopicOf(serverId, serverName)
getPresenceTopic == PresenceTopicOf(serverId, serverName)
getRpcTopic(c) == RpcTopicOf(c, serverId, serverName)
getClientPresenceTopic(c) == ClientPresenceTopicOf(c)

\* What a handler call goes on to do: nothing (drop), let an exception escape
\* (throw), or one of the handlers below, for client c.
Plan(act, c, body) == [act |-> act, c |-> c, body |-> body]
Drop == Plan("drop", EmptyStr, NoBody)
Throw == Plan("throw", EmptyStr, NoBody)

handleToolsCall(c, request) ==
    IF ~request.params.has \/ request.params.name.t = "absent"
    THEN Plan("respond", c, errorResponse(request.id, INVALID_PARAMS))
    ELSE IF request.params.name.t # "str" THEN Throw
    ELSE Plan("callTool", c, success(request.id, "tools/call"))

\* Mutant of handleRpcMessage: a request is refused until the client's
\* notifications/initialized has arrived.
handleRpcMessage_RequireInitialized(m) ==
    LET clientIdOpt == parseClientIdFromRpcTopic(m.topic)
        c == clientIdOpt.v
        j == m.payload
        request == fromJson(j)
    IN  IF ~clientIdOpt.ok THEN Drop
        ELSE IF j.kind = "empty" THEN Drop
        ELSE IF ~parse(j) THEN Drop
        ELSE IF contains(j, "method") /\ ~contains(j, "id")
        THEN IF j.method.t # "str" THEN Throw
             ELSE IF j.method.s = "notifications/initialized" THEN Plan("initialized", c, NoBody)
             ELSE IF j.method.s = "notifications/disconnected" THEN Plan("disconnected", c, NoBody)
             ELSE Drop
        ELSE IF ~request.ok THEN Drop
        ELSE IF c \notin DOMAIN clientSessions \/ ~clientSessions[c].initialized
        THEN Plan("respond", c, errorResponse(request.id, INVALID_REQUEST))
        ELSE IF request.method = "ping" THEN Plan("respond", c, success(request.id, "ping"))
        ELSE IF request.method = "tools/list" THEN Plan("respond", c, success(request.id, "tools/list"))
        ELSE IF request.method = "tools/call" THEN handleToolsCall(c, request)
        ELSE Plan("respond", c, errorResponse(request.id, METHOD_NOT_FOUND))

handleRpcMessage(m) ==
    LET clientIdOpt == parseClientIdFromRpcTopic(m.topic)
        c == clientIdOpt.v
        j == m.payload
        request == fromJson(j)
    IN  IF ~clientIdOpt.ok THEN Drop
        ELSE IF j.kind = "empty" THEN Drop
        ELSE IF ~parse(j) THEN Drop
        ELSE IF contains(j, "method") /\ ~contains(j, "id")
        THEN IF j.method.t # "str" THEN Throw
             ELSE IF j.method.s = "notifications/initialized" THEN Plan("initialized", c, NoBody)
             ELSE IF j.method.s = "notifications/disconnected" THEN Plan("disconnected", c, NoBody)
             ELSE Drop
        ELSE IF ~request.ok THEN Drop
        ELSE IF request.method = "ping" THEN Plan("respond", c, success(request.id, "ping"))
        ELSE IF request.method = "tools/list" THEN Plan("respond", c, success(request.id, "tools/list"))
        ELSE IF request.method = "tools/call" THEN handleToolsCall(c, request)
        ELSE Plan("respond", c, errorResponse(request.id, METHOD_NOT_FOUND))

\* Mutant of handleControlMessage: any control request with a client id
\* opens a session.
handleControlMessage_AnyMethod(m) ==
    LET j == m.payload
        request == fromJson(j)
        fromProps == IF m.prop.has THEN m.prop.v ELSE EmptyStr
    IN  IF ~parse(j) THEN Drop
        ELSE IF ~request.ok THEN Drop
        ELSE IF fromProps # EmptyStr
        THEN Plan("initialize", fromProps, initializeResult(request.id))
        ELSE Drop

handleControlMessage(m) ==
    LET j == m.payload
        request == fromJson(j)
        fromProps == IF m.prop.has THEN m.prop.v ELSE EmptyStr
        useParams == fromProps = EmptyStr /\ request.params.has
                     /\ request.params.mcpClientId.t # "absent"
        mcpClientId == IF useParams THEN request.params.mcpClientId.v ELSE fromProps
    IN  IF ~parse(j) THEN Drop
        ELSE IF ~request.ok THEN Drop
        ELSE IF useParams /\ request.params.mcpClientId.t # "str" THEN Throw
        ELSE IF request.method = "initialize" /\ mcpClientId # EmptyStr
        THEN \* handleInitialize reads params.protocolVersion first
             IF request.params.has /\ request.params.protocolVersion.t \notin {"absent", "str"}
             THEN Throw
             ELSE Plan("initialize", mcpClientId, initializeResult(request.id))
        ELSE Drop

\* Mutant of handleClientPresence: an empty payload ends the session.
handleClientPresence_EmptyDisconnects(m) ==
    LET clientIdOpt == parseClientIdFromPresenceTopic(m.topic)
        j == m.payload
    IN  IF ~clientIdOpt.ok THEN Drop
        ELSE IF j.kind = "empty" THEN Plan("disconnected", clientIdOpt.v, NoBody)
        ELSE IF parse(j) /\ contains(j, "method")
        THEN IF j.method.t # "str" THEN Throw
             ELSE IF j.method.s = "notifications/disconnected"
             THEN Plan("disconnected", clientIdOpt.v, NoBody)
             ELSE Drop
        ELSE Drop

handleClientPresence(m) ==
    LET clientIdOpt == parseClientIdFromPresenceTopic(m.topic)
        j == m.payload
    IN  IF ~clientIdOpt.ok THEN Drop
        ELSE IF j.kind = "empty" THEN Drop
        ELSE IF parse(j) /\ contains(j, "method")
        THEN IF j.method.t # "str" THEN Throw
             ELSE IF j.method.s = "notifications/disconnected"
             THEN Plan("disconnected", clientIdOpt.v, NoBody)
             ELSE Drop
        ELSE Drop

\* Mutant of handleIncomingMessage: any other MCP topic is taken for the
\* control topic.
handleIncomingMessage_RouteAll(m) ==
    IF ~isMcpTopic(m.topic) THEN Drop
    ELSE IF StartsWith(m.topic, MCP_RPC_PREFIX) THEN handleRpcMessage(m)
    ELSE IF StartsWith(m.topic, CLIENT_PRESENCE_PREFIX) THEN handleClientPresence(m)
    ELSE handleControlMessage(m)

handleIncomingMessage(m) ==
    IF ~isMcpTopic(m.topic) THEN Drop
    ELSE IF StartsWith(m.topic, MCP_RPC_PREFIX) THEN handleRpcMessage(m)
    ELSE IF m.topic = getControlTopic THEN handleControlMessage(m)
    ELSE IF StartsWith(m.topic, CLIENT_PRESENCE_PREFIX) THEN handleClientPresence(m)
    ELSE Drop

\* Mutant of requestedVersion: the server's own version, whatever was asked.
requestedVersion_Own(m) == MCP_PROTOCOL_VERSION

\* The protocol version handleInitialize stores in the session.
requestedVersion(m) ==
    IF m.payload.params.has /\ m.payload.params.protocolVersion.t = "str"
    THEN m.payload.params.protocolVersion.s
    ELSE MCP_PROTOCOL_VERSION

\* ------------------------------------------------------------------ inputs

Client1 == <<"c1">>
Client2 == <<"c2">>
ClientIds == {Client1, Client2}
\* std::map iterates its keys in ascending order
ClientOrder == <<Client1, Client2>>

\* McpServerConfig values the embedder starts the server with
Configs == {[serverId |-> <<"s1">>, serverName |-> <<"demo", "calc">>],
            [serverId |-> <<"s2">>, serverName |-> <<"other">>]}

ReqIds == {JNum(1), JNum(IntMax + 1), JStr("1")}

InitParams(cid, ver) == Params(cid, ver, JAbsent)

\* Payloads of an initialize whose sender names itself in the user property
InitPayloads ==
    {Request(id, "initialize", InitParams(PNoId, JStr(MCP_PROTOCOL_VERSION))) : id \in ReqIds}
    \cup {Request(JNum(1), "initialize", InitParams(PNoId, JStr("2025-03-26"))),
          Request(JNum(1), "initialize", InitParams(PNoId, JNum(1))),
          Request(JNum(1), "initialize", NoParams),
          Notification("initialize")}

OtherControlPayloads ==
    {Request(JNum(1), "ping", NoParams),
     Obj("1.0", JNum(1), JStr("initialize"), NoParams),
     Obj(JSONRPC_VERSION, JNum(1), JAbsent, NoParams),
     Obj(JSONRPC_VERSION, JNum(1), JNum(7), NoParams),
     PayloadOf("garbage"), PayloadOf("empty"), PayloadOf("nonobject")}

ControlMsgs ==
    {Msg("control", Client1, getControlTopic, Prop(Client1), p) : p \in InitPayloads \cup OtherControlPayloads}
    \cup {Msg("control", Client2, getControlTopic, Prop(Client2),
              Request(JNum(1), "initialize", InitParams(PNoId, JStr(MCP_PROTOCOL_VERSION))))}
    \cup {Msg("control", Client1, getControlTopic, Prop(Client1),
              Request(JNum(1), "initialize", InitParams(PId(Client2), JAbsent)))}
    \cup {Msg("control", IF pid.t = "str" THEN pid.v ELSE EmptyStr, getControlTopic, prop,
              Request(JNum(1), "initialize", InitParams(pid, JAbsent)))
            : prop \in {NoProp, Prop(EmptyStr)}, pid \in {PNoId, PId(Client2), PNumId}}

RpcPayloads ==
    {Notification(me) : me \in {"notifications/initialized", "notifications/disconnected",
                                "notifications/other"}}
    \cup {Request(id, "ping", NoParams) : id \in ReqIds \cup {JNull, JFloat}}
    \cup {Request(JNum(1), me, NoParams) : me \in {"tools/list", "tools/call", "foo/bar", "initialize"}}
    \cup {Request(JNum(1), "tools/call", Params(PNoId, JAbsent, name))
            : name \in {JStr("add"), JAbsent, JNum(1)}}
    \cup {Obj("1.0", JNum(1), JStr("ping"), NoParams),
          Obj(JSONRPC_VERSION, JNum(1), JAbsent, NoParams),
          Obj(JSONRPC_VERSION, JAbsent, JNum(7), NoParams),
          Obj(JSONRPC_VERSION, JNum(1), JNum(7), NoParams),
          PayloadOf("garbage"), PayloadOf("empty"), PayloadOf("nonobject")}

RpcMsgs ==
    {Msg("rpc", Client1, getRpcTopic(Client1), NoProp, p) : p \in RpcPayloads}
    \cup {Msg("rpc", Client2, getRpcTopic(Client2), NoProp, p)
            : p \in {Notification("notifications/initialized"),
                     Notification("notifications/disconnected"),
                     Request(JNum(1), "ping", NoParams)}}
    \* the same client's RPC topic with another server, and a topic cut short
    \cup {Msg("rpc", Client1, RpcTopicOf(Client1, <<"s9">>, <<"else">>), NoProp, Request(JNum(1), "ping", NoParams)),
          Msg("rpc", Client1, <<"$mcp-rpc", "c1">>, NoProp, Request(JNum(1), "ping", NoParams))}

PresencePayloads ==
    {PayloadOf("empty"), PayloadOf("garbage"),
     Notification("notifications/disconnected"), Notification("notifications/other"),
     Obj(JSONRPC_VERSION, JAbsent, JNum(7), NoParams),
     Obj(JSONRPC_VERSION, JNum(1), JAbsent, NoParams)}

PresenceMsgs ==
    {Msg("presence", Client1, getClientPresenceTopic(Client1), NoProp, p) : p \in PresencePayloads}
    \cup {Msg("presence", Client2, getClientPresenceTopic(Client2), NoProp, p)
            : p \in {PayloadOf("empty"), Notification("notifications/disconnected")}}

\* Topics outside the three handled channels
OtherMsgs ==
    {Msg("other", Client1, t, Prop(Client1), Request(JNum(1), "initialize", NoParams))
        : t \in {<<"sensors", "temp">>, <<"$mcp-client", "other", "c1">>,
                 getPresenceTopic, ControlTopicOf(<<"s9">>, <<"else">>)}}

Inbound == ControlMsgs \cup RpcMsgs \cup PresenceMsgs \cup OtherMsgs

\* The messages of a session's life, for every client
CoreMsgs ==
    {Msg("control", c, getControlTopic, Prop(c),
         Request(JNum(1), "initialize", InitParams(PNoId, JStr(MCP_PROTOCOL_VERSION))))
        : c \in ClientIds}
    \cup {Msg("control", Client1, getControlTopic, Prop(Client1),
              Request(JNum(1), "initialize", InitParams(PNoId, JStr("2025-03-26"))))}
    \cup {Msg("rpc", c, getRpcTopic(c), NoProp, p)
            : c \in ClientIds,
              p \in {Notification("notifications/initialized"),
                     Notification("notifications/disconnected"),
                     Request(JNum(1), "ping", NoParams)}}
    \cup {Msg("presence", c, getClientPresenceTopic(c), NoProp, p)
            : c \in ClientIds,
              p \in {PayloadOf("empty"), Notification("notifications/disconnected")}}

\* ------------------------------------------------------------------ events

\* What a call did: a transport call (subscribe, unsubscribe, publish), a
\* user callback (connected, disconnected), an exception that left the
\* handler (throw) or a call through the null transport pointer (fault).
ServerPropsOf(sid) == [ctype |-> COMPONENT_TYPE_SERVER, cid |-> sid]
ServerProps == ServerPropsOf(serverId)
NoProps == [ctype |-> "", cid |-> EmptyStr]

Ev(e, topic, flag, props, body, c, gen) ==
    [e |-> e, topic |-> topic, flag |-> flag, props |-> props, body |-> body,
     c |-> c, gen |-> gen, ok |-> TRUE]
\* The transport call ev, when the transport returned false
Failed(ev) == [ev EXCEPT !.ok = FALSE]
EvSubscribe(topic, noLocal) == Ev("subscribe", topic, noLocal, NoProps, NoBody, EmptyStr, 0)
EvUnsubscribe(topic) == Ev("unsubscribe", topic, FALSE, NoProps, NoBody, EmptyStr, 0)
EvPublish(topic, isRetained, props, body) == Ev("publish", topic, isRetained, props, body, EmptyStr, 0)
EvCallback(e, c, gen) == Ev(e, <<"">>, FALSE, NoProps, NoBody, c, gen)
\* The tool handler h, registered under name, was invoked and did r
EvTool(name, h, r) ==
    Ev("tool", <<name>>, FALSE, NoProps, [NoBody EXCEPT !.what = r], EmptyStr, h)
EvThrow == Ev("throw", <<"">>, FALSE, NoProps, NoBody, EmptyStr, 0)
EvFault == Ev("fault", <<"">>, FALSE, NoProps, NoBody, EmptyStr, 0)

\* IMqttClient::subscribe / unsubscribe on the transport's table
Subscribed(table, topic, noLocal) ==
    {x \in table : x.topic # topic} \cup {[topic |-> topic, noLocal |-> noLocal]}
Unsubscribed(table, topic) == {x \in table : x.topic # topic}
Holds(topic) == \E x \in subs : x.topic = topic

\* IMqttClient::publish with retained = true
Retain(topic, payload) ==
    [t \in DOMAIN retained \cup {topic} |-> IF t = topic THEN payload ELSE retained[t]]
LastRetained(topic) == IF topic \in DOMAIN retained THEN retained[topic] ELSE "none"

\* sendResponse
sendResponse(c, response) == Ev("publish", getRpcTopic(c), FALSE, ServerProps, response, c, 0)
\* sendNotification
sendNotification(c, notification, gen) ==
    Ev("publish", getRpcTopic(c), FALSE, ServerProps, notification, c, gen)

\* The sessions in the table, in the map's order
SessionOrder == SelectSeq(ClientOrder, LAMBDA c : c \in DOMAIN clientSessions)

RECURSIVE MapSeq(_, _)
MapSeq(F(_), q) == IF q = <<>> THEN <<>> ELSE <<F(Head(q))>> \o MapSeq(F, Tail(q))

RECURSIVE FlatSeq(_)
FlatSeq(q) == IF q = <<>> THEN <<>> ELSE Head(q) \o FlatSeq(Tail(q))

\* ------------------------------------------------------------------- Init

NoSessions == [c \in {} |-> 0]
NoTools == [n \in {} |-> 0]

Idle == [pc |-> "idle", msg |-> NoMsg, plan |-> Drop, gen |-> 0]

Init ==
    /\ running = FALSE
    /\ mqttClient = FALSE
    /\ serverId = EmptyStr
    /\ serverName = EmptyStr
    /\ clientSessions = NoSessions
    /\ tools = NoTools
    /\ handlers = NoTools
    /\ mutex = "free"
    /\ connected \in BOOLEAN
    /\ handlerSet = FALSE
    /\ lostCbSet = FALSE
    /\ subs = {}
    /\ retained = [t \in {} |-> ""]
    /\ api = [pc |-> "idle", op |-> "none", ret |-> FALSE]
    /\ th = [t \in Threads |-> Idle]
    /\ out = [t \in Threads \cup {"api"} |-> <<>>]
    /\ sessionSeq = 0
    /\ starts = 0
    /\ phase = "new"
    /\ fault = FALSE

\* No call is in progress
Quiet == api.pc = "idle" /\ \A t \in Threads : th[t].pc = "idle"

toolManager == <<tools, handlers, mutex>>
engine == <<running, mqttClient, serverId, serverName, clientSessions, toolManager>>
transport == <<connected, handlerSet, lostCbSet, subs, retained>>

\* ------------------------------------------------------ start() and stop()

Returned(op, ret) == [pc |-> "done", op |-> op, ret |-> ret]

\* Mutant of start: serverId_ and serverName_ are assigned before the checks.
start_AssignFirst(tp, cfg) ==
    /\ api.pc = "idle" /\ ~fault
    /\ serverId' = cfg.serverId
    /\ serverName' = cfg.serverName
    /\ IF running \/ ~tp \/ ~connected
       THEN /\ api' = Returned("start", FALSE)
            /\ out' = [out EXCEPT !["api"] = <<>>]
            /\ UNCHANGED <<toolManager, running, mqttClient, clientSessions, transport, th, sessionSeq, starts, phase, fault>>
       ELSE /\ starts < MaxStarts
            /\ starts' = starts + 1
            /\ mqttClient' = TRUE
            /\ handlerSet' = TRUE
            /\ lostCbSet' = TRUE
            /\ subs' = Subscribed(subs, ControlTopicOf(cfg.serverId, cfg.serverName), FALSE)
            /\ retained' = Retain(PresenceTopicOf(cfg.serverId, cfg.serverName), "online")
            /\ running' = TRUE
            /\ phase' = "started"
            /\ api' = Returned("start", TRUE)
            /\ out' = [out EXCEPT !["api"] =
                   <<EvSubscribe(ControlTopicOf(cfg.serverId, cfg.serverName), FALSE),
                     EvPublish(PresenceTopicOf(cfg.serverId, cfg.serverName), TRUE,
                               ServerPropsOf(cfg.serverId), create("notifications/server/online"))>>]
            /\ UNCHANGED <<clientSessions, toolManager, connected, th, sessionSeq, fault>>

\* start(mqttClient, config); tp: the mqttClient argument is not null.
\* setupSubscriptions and publishPresence are part of the call.
start(tp, cfg) ==
    /\ api.pc = "idle" /\ ~fault
    /\ IF running \/ ~tp \/ ~connected
       THEN /\ api' = Returned("start", FALSE)
            /\ out' = [out EXCEPT !["api"] = <<>>]
            /\ UNCHANGED <<engine, transport, th, sessionSeq, starts, phase, fault>>
       ELSE /\ starts < MaxStarts
            /\ starts' = starts + 1
            /\ mqttClient' = TRUE
            /\ serverId' = cfg.serverId
            /\ serverName' = cfg.serverName
            /\ handlerSet' = TRUE
            /\ lostCbSet' = TRUE
            /\ subs' = Subscribed(subs, ControlTopicOf(cfg.serverId, cfg.serverName), FALSE)
            /\ retained' = Retain(PresenceTopicOf(cfg.serverId, cfg.serverName), "online")
            /\ running' = TRUE
            /\ phase' = "started"
            /\ api' = Returned("start", TRUE)
            /\ out' = [out EXCEPT !["api"] =
                   <<EvSubscribe(ControlTopicOf(cfg.serverId, cfg.serverName), FALSE),
                     EvPublish(PresenceTopicOf(cfg.serverId, cfg.serverName), TRUE,
                               ServerPropsOf(cfg.serverId), create("notifications/server/online"))>>]
            /\ UNCHANGED <<clientSessions, toolManager, connected, th, sessionSeq, fault>>

\* A call through mqttClient_ while it is null, on the embedder's thread
apiFault ==
    /\ fault' = TRUE
    /\ api' = [api EXCEPT !.pc = "crashed"]
    /\ out' = [out EXCEPT !["api"] = Append(@, EvFault)]
    /\ UNCHANGED <<engine, transport, th, sessionSeq, starts, phase>>

\* Mutant of stop: the presence is cleared before the sessions are notified.
stop_ClearFirst ==
    /\ api.pc = "idle" /\ ~fault
    /\ IF ~running
       THEN /\ api' = Returned("stop", FALSE)
            /\ phase' = "stopped"
            /\ out' = [out EXCEPT !["api"] = <<>>]
            /\ UNCHANGED <<engine, transport, th, sessionSeq, starts, fault>>
       ELSE IF clientSessions # NoSessions /\ ~mqttClient
       THEN apiFault
       ELSE /\ out' = [out EXCEPT !["api"] =
                   <<EvPublish(getPresenceTopic, TRUE, NoProps, NoBody)>> \o
                   MapSeq(LAMBDA c : sendNotification(c, create("notifications/disconnected"),
                                                      clientSessions[c].gen),
                          SessionOrder)]
            /\ clientSessions' = NoSessions
            /\ api' = [pc |-> "clearPresence", op |-> "stop", ret |-> TRUE]
            /\ UNCHANGED <<toolManager, running, mqttClient, serverId, serverName, transport, th,
                           sessionSeq, starts, phase, fault>>

\* Mutant of stop: without the early return.
stop_NoEarlyReturn ==
    /\ api.pc = "idle" /\ ~fault
    /\ IF clientSessions # NoSessions /\ ~mqttClient
       THEN apiFault
       ELSE /\ out' = [out EXCEPT !["api"] =
                   MapSeq(LAMBDA c : sendNotification(c, create("notifications/disconnected"),
                                                      clientSessions[c].gen),
                          SessionOrder)]
            /\ clientSessions' = NoSessions
            /\ api' = [pc |-> "clearPresence", op |-> "stop", ret |-> TRUE]
            /\ UNCHANGED <<toolManager, running, mqttClient, serverId, serverName, transport, th,
                           sessionSeq, starts, phase, fault>>

\* stop(), to the end of the block that holds sessionsMutex_: the early
\* return, the disconnected notification per session, clientSessions_.clear()
stop ==
    /\ api.pc = "idle" /\ ~fault
    /\ IF ~running
       THEN /\ api' = Returned("stop", FALSE)
            /\ phase' = "stopped"
            /\ out' = [out EXCEPT !["api"] = <<>>]
            /\ UNCHANGED <<engine, transport, th, sessionSeq, starts, fault>>
       ELSE IF clientSessions # NoSessions /\ ~mqttClient
       THEN apiFault
       ELSE /\ out' = [out EXCEPT !["api"] =
                   MapSeq(LAMBDA c : sendNotification(c, create("notifications/disconnected"),
                                                      clientSessions[c].gen),
                          SessionOrder)]
            /\ clientSessions' = NoSessions
            /\ api' = [pc |-> "clearPresence", op |-> "stop", ret |-> TRUE]
            /\ UNCHANGED <<toolManager, running, mqttClient, serverId, serverName, transport, th,
                           sessionSeq, starts, phase, fault>>

\* clearPresence(), called by stop()
clearPresence ==
    /\ api.pc = "clearPresence" /\ ~fault
    /\ api' = [api EXCEPT !.pc = "cleanupSubscriptions"]
    /\ IF ~mqttClient
       THEN UNCHANGED <<retained, out>>
       ELSE /\ retained' = Retain(getPresenceTopic, "empty")
            /\ out' = [out EXCEPT !["api"] =
                   Append(@, EvPublish(getPresenceTopic, TRUE, NoProps, NoBody))]
    /\ UNCHANGED <<engine, connected, handlerSet, lostCbSet, subs, th, sessionSeq, starts, phase, fault>>

\* The unsubscribe calls of cleanupSubscriptions: the control topic, then the
\* two topics of every session in the table
cleanupCalls ==
    <<EvUnsubscribe(getControlTopic)>>
    \o FlatSeq(MapSeq(LAMBDA c : <<EvUnsubscribe(getRpcTopic(c)),
                                   EvUnsubscribe(getClientPresenceTopic(c))>>,
                      SessionOrder))

\* cleanupSubscriptions(), called by stop()
cleanupSubscriptions ==
    /\ api.pc = "cleanupSubscriptions" /\ ~fault
    /\ api' = [api EXCEPT !.pc = "release"]
    /\ IF ~mqttClient
       THEN UNCHANGED <<subs, out>>
       ELSE /\ subs' = {x \in subs : \A i \in 1..Len(cleanupCalls) : cleanupCalls[i].topic # x.topic}
            /\ out' = [out EXCEPT !["api"] = @ \o cleanupCalls]
    /\ UNCHANGED <<engine, connected, handlerSet, lostCbSet, retained, th, sessionSeq, starts, phase, fault>>

\* the end of stop(): running_ = false; mqttClient_ = nullptr
stop_release ==
    /\ api.pc = "release" /\ ~fault
    /\ running' = FALSE
    /\ mqttClient' = FALSE
    /\ api' = Returned("stop", TRUE)
    /\ phase' = "stopped"
    /\ UNCHANGED <<toolManager, serverId, serverName, clientSessions, transport, th, out, sessionSeq, starts, fault>>

\* registerTool, unregisterTool and callTool lock ToolManager::mutex_ first: a
\* call made while another thread holds it goes on when it is free.

\* ToolManager::registerTool and unregisterTool on one of the two maps
Registered(map, name, v) ==
    IF name \in DOMAIN map THEN map
    ELSE [n \in DOMAIN map \cup {name} |-> IF n = name THEN v ELSE map[n]]
Unregistered(map, name) == [n \in DOMAIN map \ {name} |-> map[n]]

\* Mutant of registerTool: a second registration replaces the handler.
registerTool_Overwrite(name, v) ==
    /\ api.pc = "idle" /\ ~fault
    /\ mutex = "free"
    /\ IF name \in DOMAIN tools
       THEN /\ api' = Returned("registerTool", FALSE)
            /\ handlers' = [handlers EXCEPT ![name] = v]
            /\ UNCHANGED tools
       ELSE /\ tools' = Registered(tools, name, v)
            /\ handlers' = Registered(handlers, name, v)
            /\ api' = Returned("registerTool", TRUE)
    /\ out' = [out EXCEPT !["api"] = <<>>]
    /\ UNCHANGED <<running, mqttClient, serverId, serverName, clientSessions, mutex, transport, th,
                   sessionSeq, starts, phase, fault>>

\* registerTool(tool, handler): the embedder registers declaration v of the
\* tool called name, with the handler that goes with it.
registerTool(name, v) ==
    /\ api.pc = "idle" /\ ~fault
    /\ mutex = "free"
    /\ IF name \in DOMAIN tools
       THEN /\ api' = Returned("registerTool", FALSE)
            /\ UNCHANGED <<tools, handlers>>
       ELSE /\ tools' = Registered(tools, name, v)
            /\ handlers' = Registered(handlers, name, v)
            /\ api' = Returned("registerTool", TRUE)
    /\ out' = [out EXCEPT !["api"] = <<>>]
    /\ UNCHANGED <<running, mqttClient, serverId, serverName, clientSessions, mutex, transport, th,
                   sessionSeq, starts, phase, fault>>

\* unregisterTool(name)
unregisterTool(name) ==
    /\ api.pc = "idle" /\ ~fault
    /\ mutex = "free"
    /\ tools' = Unregistered(tools, name)
    /\ handlers' = Unregistered(handlers, name)
    /\ api' = Returned("unregisterTool", TRUE)
    /\ out' = [out EXCEPT !["api"] = <<>>]
    /\ UNCHANGED <<running, mqttClient, serverId, serverName, clientSessions, mutex, transport, th,
                   sessionSeq, starts, phase, fault>>

\* The start() or stop() call has returned and the embedder goes on.
apiReturn ==
    /\ api.pc = "done" /\ ~fault
    /\ api' = [pc |-> "idle", op |-> "none", ret |-> FALSE]
    /\ out' = [out EXCEPT !["api"] = <<>>]
    /\ UNCHANGED <<engine, transport, th, sessionSeq, starts, phase, fault>>

\* isRunning(): running_ && mqttClient_ && mqttClient_->isConnected()
isRunning == running /\ mqttClient /\ connected

\* Mutant of connectionLost: the callback leaves running_ as it is.
connectionLost_KeepRunning ==
    /\ connected /\ ~fault
    /\ connected' = FALSE
    /\ UNCHANGED <<engine, handlerSet, lostCbSet, subs, retained, api, th, out,
                   sessionSeq, starts, phase, fault>>

\* The transport loses its connection and calls the connection-lost callback
\* that start() installed.
connectionLost ==
    /\ connected /\ ~fault
    /\ connected' = FALSE
    /\ running' = IF lostCbSet THEN FALSE ELSE running
    /\ UNCHANGED <<toolManager, mqttClient, serverId, serverName, clientSessions, handlerSet, lostCbSet,
                   subs, retained, api, th, out, sessionSeq, starts, phase, fault>>

\* The embedder's MQTT client connects (again).
reconnect ==
    /\ ~connected /\ ~fault
    /\ connected' = TRUE
    /\ UNCHANGED <<engine, handlerSet, lostCbSet, subs, retained, api, th, out,
                   sessionSeq, starts, phase, fault>>

\* ------------------------------------------------- the message handler

FirstPc(plan) ==
    CASE plan.act = "initialize" -> "handleInitialize"
      [] plan.act = "initialized" -> "handleInitializedNotification"
      [] plan.act = "disconnected" -> "cleanupClientSession"
      [] plan.act = "respond" /\ plan.body.what = "tools/list" -> "getToolsJson"
      [] plan.act = "respond" -> "sendResponse"
      [] plan.act = "callTool" -> "callTool"
      [] OTHER -> "done"

\* The transport calls the handler start() installed, on thread t, with
\* message m: handleIncomingMessage and the channel's handler, up to the
\* first access to the session table or the transport.
deliver(t, m) ==
    /\ handlerSet /\ ~fault
    /\ th[t].pc = "idle"
    /\ LET plan == handleIncomingMessage(m)
           isInit == plan.act = "initialize"
       IN  /\ isInit => sessionSeq < MaxSessions
           /\ sessionSeq' = IF isInit THEN sessionSeq + 1 ELSE sessionSeq
           /\ th' = [th EXCEPT ![t] = [pc |-> FirstPc(plan), msg |-> m, plan |-> plan,
                                       gen |-> IF isInit THEN sessionSeq + 1 ELSE 0]]
           /\ out' = [out EXCEPT ![t] = IF plan.act = "throw" THEN <<EvThrow>> ELSE <<>>]
    /\ UNCHANGED <<engine, transport, api, starts, phase, fault>>

\* A call through mqttClient_ while it is null, on delivery thread t
threadFault(t) ==
    /\ fault' = TRUE
    /\ th' = [th EXCEPT ![t].pc = "crashed"]
    /\ out' = [out EXCEPT ![t] = Append(@, EvFault)]
    /\ UNCHANGED <<engine, transport, api, sessionSeq, starts, phase>>

\* Mutant of handleInitialize_subscribe: the response is published first.
handleInitialize_subscribe_Late(t) ==
    /\ th[t].pc = "handleInitialize" /\ ~fault
    /\ IF ~mqttClient THEN threadFault(t)
       ELSE LET c == th[t].plan.c
            IN  /\ subs' = Subscribed(Subscribed(subs, getRpcTopic(c), TRUE),
                                      getClientPresenceTopic(c), FALSE)
                /\ out' = [out EXCEPT ![t] = @ \o <<sendResponse(c, th[t].plan.body),
                                                    EvSubscribe(getRpcTopic(c), TRUE),
                                                    EvSubscribe(getClientPresenceTopic(c), FALSE)>>]
                /\ th' = [th EXCEPT ![t].pc = "handleInitialize_store"]
                /\ UNCHANGED <<engine, connected, handlerSet, lostCbSet, retained, api,
                               sessionSeq, starts, phase, fault>>

\* handleInitialize: the two subscribe calls
handleInitialize_subscribe(t) ==
    /\ th[t].pc = "handleInitialize" /\ ~fault
    /\ IF ~mqttClient THEN threadFault(t)
       ELSE LET c == th[t].plan.c
            IN  /\ subs' = Subscribed(Subscribed(subs, getRpcTopic(c), TRUE),
                                      getClientPresenceTopic(c), FALSE)
                /\ out' = [out EXCEPT ![t] = @ \o <<EvSubscribe(getRpcTopic(c), TRUE),
                                                    EvSubscribe(getClientPresenceTopic(c), FALSE)>>]
                /\ th' = [th EXCEPT ![t].pc = "handleInitialize_store"]
                /\ UNCHANGED <<engine, connected, handlerSet, lostCbSet, retained, api,
                               sessionSeq, starts, phase, fault>>

\* Mutant of handleInitialize_subscribeWith: a subscribe that returns false
\* ends handleInitialize.
handleInitialize_subscribeWith_Abort(t, ok1, ok2) ==
    /\ th[t].pc = "handleInitialize" /\ ~fault
    /\ IF ~mqttClient THEN threadFault(t)
       ELSE LET c == th[t].plan.c
                rpc == EvSubscribe(getRpcTopic(c), TRUE)
                presence == EvSubscribe(getClientPresenceTopic(c), FALSE)
                sub1 == IF ok1 THEN Subscribed(subs, getRpcTopic(c), TRUE) ELSE subs
            IN  /\ subs' = IF ok2 THEN Subscribed(sub1, getClientPresenceTopic(c), FALSE)
                           ELSE sub1
                /\ out' = [out EXCEPT ![t] = @ \o <<IF ok1 THEN rpc ELSE Failed(rpc),
                                                    IF ok2 THEN presence ELSE Failed(presence)>>]
                /\ th' = [th EXCEPT ![t].pc = IF ok1 /\ ok2 THEN "handleInitialize_store"
                                              ELSE "done"]
                /\ UNCHANGED <<engine, connected, handlerSet, lostCbSet, retained, api,
                               sessionSeq, starts, phase, fault>>

\* handleInitialize's two subscribe calls with a transport that returns ok1
\* from the first and ok2 from the second: the results are not looked at.
handleInitialize_subscribeWith(t, ok1, ok2) ==
    /\ th[t].pc = "handleInitialize" /\ ~fault
    /\ IF ~mqttClient THEN threadFault(t)
       ELSE LET c == th[t].plan.c
                rpc == EvSubscribe(getRpcTopic(c), TRUE)
                presence == EvSubscribe(getClientPresenceTopic(c), FALSE)
                sub1 == IF ok1 THEN Subscribed(subs, getRpcTopic(c), TRUE) ELSE subs
            IN  /\ subs' = IF ok2 THEN Subscribed(sub1, getClientPresenceTopic(c), FALSE)
                           ELSE sub1
                /\ out' = [out EXCEPT ![t] = @ \o <<IF ok1 THEN rpc ELSE Failed(rpc),
                                                    IF ok2 THEN presence ELSE Failed(presence)>>]
                /\ th' = [th EXCEPT ![t].pc = "handleInitialize_store"]
                /\ UNCHANGED <<engine, connected, handlerSet, lostCbSet, retained, api,
                               sessionSeq, starts, phase, fault>>

\* The ClientSession handleInitialize builds
NewSession(t) ==
    [protocolVersion |-> requestedVersion(th[t].msg), initialized |-> FALSE, gen |-> th[t].gen]

\* handleInitialize: clientSessions_[mcpClientId] = session, under sessionsMutex_
handleInitialize_store(t) ==
    /\ th[t].pc = "handleInitialize_store" /\ ~fault
    /\ LET c == th[t].plan.c
       IN  clientSessions' = [k \in DOMAIN clientSessions \cup {c} |->
                                 IF k = c THEN NewSession(t) ELSE clientSessions[k]]
    /\ th' = [th EXCEPT ![t].pc = "sendResponse"]
    /\ UNCHANGED <<toolManager, running, mqttClient, serverId, serverName, transport, api, out,
                   sessionSeq, starts, phase, fault>>

\* handleToolsList: toolManager_.getToolsJson(), which reads the registry
\* under ToolManager::mutex_
getToolsJson(t) ==
    /\ th[t].pc = "getToolsJson" /\ ~fault
    /\ mutex = "free"
    /\ th' = [th EXCEPT ![t].pc = "sendResponse"]
    /\ UNCHANGED <<engine, transport, api, out, sessionSeq, starts, phase, fault>>

\* sendResponse: the publish that ends handleInitialize, handlePing,
\* handleToolsList, handleToolsCall and the method-not-found branch
respond(t) ==
    /\ th[t].pc = "sendResponse" /\ ~fault
    /\ IF ~mqttClient THEN threadFault(t)
       ELSE /\ out' = [out EXCEPT ![t] = Append(@, sendResponse(th[t].plan.c, th[t].plan.body))]
            /\ th' = [th EXCEPT ![t].pc = "done"]
            /\ UNCHANGED <<engine, transport, api, sessionSeq, starts, phase, fault>>

\* sendResponse with a transport whose publish returns ok: the result is not
\* looked at.
respondWith(t, ok) ==
    /\ th[t].pc = "sendResponse" /\ ~fault
    /\ IF ~mqttClient THEN threadFault(t)
       ELSE LET ev == sendResponse(th[t].plan.c, th[t].plan.body)
            IN  /\ out' = [out EXCEPT ![t] = Append(@, IF ok THEN ev ELSE Failed(ev))]
                /\ th' = [th EXCEPT ![t].pc = "done"]
                /\ UNCHANGED <<engine, transport, api, sessionSeq, starts, phase, fault>>

\* What a tool handler does when it is invoked: it returns a result, returns
\* a result with isError set, or throws.
HandlerOutcomes == {"success", "error", "throw"}

\* Mutant of callTool: an exception of the handler is answered with a
\* JSON-RPC error.
callTool_ErrorOnThrow(t) ==
    /\ th[t].pc = "callTool" /\ ~fault
    /\ mutex = "free"
    /\ LET name == th[t].msg.payload.params.name.s
       IN  IF name \notin DOMAIN handlers
           THEN /\ th' = [th EXCEPT ![t].pc = "sendResponse", ![t].plan.body.isError = TRUE]
                /\ UNCHANGED out
           ELSE \E r \in HandlerOutcomes :
                /\ out' = [out EXCEPT ![t] = Append(@, EvTool(name, handlers[name], r))]
                /\ th' = [th EXCEPT ![t].pc = "sendResponse",
                                    ![t].plan.body.isError = (r = "error"),
                                    ![t].plan.body.kind =
                                        IF r = "throw" THEN "error" ELSE "result"]
    /\ UNCHANGED <<engine, transport, api, sessionSeq, starts, phase, fault>>

\* handleToolsCall from toolManager_.callTool on: the handler is looked up and
\* invoked under ToolManager::mutex_, an exception it throws is caught and
\* turned into an error result, and the result goes into a success response.
callTool(t) ==
    /\ th[t].pc = "callTool" /\ ~fault
    /\ mutex = "free"
    /\ LET name == th[t].msg.payload.params.name.s
       IN  IF name \notin DOMAIN handlers
           THEN /\ th' = [th EXCEPT ![t].pc = "sendResponse", ![t].plan.body.isError = TRUE]
                /\ UNCHANGED out
           ELSE \E r \in HandlerOutcomes :
                /\ out' = [out EXCEPT ![t] = Append(@, EvTool(name, handlers[name], r))]
                /\ th' = [th EXCEPT ![t].pc = "sendResponse",
                                    ![t].plan.body.isError = (r # "success")]
    /\ UNCHANGED <<engine, transport, api, sessionSeq, starts, phase, fault>>

\* Mutant of callTool_invoke: the handler is entered without the mutex.
callTool_invoke_NoLock(t) ==
    /\ th[t].pc = "callTool" /\ ~fault
    /\ IF th[t].msg.payload.params.name.s \notin DOMAIN handlers
       THEN th' = [th EXCEPT ![t].pc = "sendResponse", ![t].plan.body.isError = TRUE]
       ELSE th' = [th EXCEPT ![t].pc = "handler"]
    /\ UNCHANGED <<engine, transport, api, out, sessionSeq, starts, phase, fault>>

\* callTool in two steps, for calls that overlap.  First step: the thread
\* takes ToolManager::mutex_ and looks the handler up; it returns the
\* "Tool not found" result and lets the mutex go, or enters the handler with
\* the mutex held.
callTool_invoke(t) ==
    /\ th[t].pc = "callTool" /\ ~fault
    /\ mutex = "free"
    /\ IF th[t].msg.payload.params.name.s \notin DOMAIN handlers
       THEN /\ th' = [th EXCEPT ![t].pc = "sendResponse", ![t].plan.body.isError = TRUE]
            /\ UNCHANGED mutex
       ELSE /\ th' = [th EXCEPT ![t].pc = "handler"]
            /\ mutex' = t
    /\ UNCHANGED <<running, mqttClient, serverId, serverName, clientSessions, tools, handlers,
                   transport, api, out, sessionSeq, starts, phase, fault>>

\* Second step: the handler returns or throws, callTool returns the result
\* and the lock_guard lets the mutex go.
callTool_return(t) ==
    /\ th[t].pc = "handler" /\ ~fault
    /\ LET name == th[t].msg.payload.params.name.s
       IN  \E r \in HandlerOutcomes :
               /\ out' = [out EXCEPT ![t] = Append(@, EvTool(name, handlers[name], r))]
               /\ th' = [th EXCEPT ![t].pc = "sendResponse",
                                   ![t].plan.body.isError = (r # "success")]
    /\ mutex' = "free"
    /\ UNCHANGED <<running, mqttClient, serverId, serverName, clientSessions, tools, handlers,
                   transport, api, sessionSeq, starts, phase, fault>>

\* What the embedder's client-connected or client-disconnected callback does:
\* nothing with the engine, or one call back into it (registerTool and
\* unregisterTool with the tool "add").
CallbackCalls == {"none", "getConnectedClients", "getTools", "registerTool", "unregisterTool"}

\* std::mutex::lock() by the thread that owns the mutex is undefined: the
\* thread blocks for ever, or lock() throws std::system_error.
RelockOutcomes == {"deadlock", "system_error"}

\* The maps after a callback's call into the ToolManager (its mutex is free)
CallbackTools(map, k) ==
    CASE k = "registerTool" -> Registered(map, "add", 1)
      [] k = "unregisterTool" -> Unregistered(map, "add")
      [] OTHER -> map

\* What a tool handler does with the server that invoked it: nothing, or one
\* call back into its tool registry.
HandlerCalls == {"none", "getTools", "registerTool", "unregisterTool"}

\* callTool's second step with a handler that makes call k: getTools,
\* registerTool and unregisterTool lock ToolManager::mutex_, which this thread
\* holds.  A std::system_error thrown by the lock leaves the handler and is
\* caught by callTool like any exception of the handler.
callTool_returnWith(t, k) ==
    /\ th[t].pc = "handler" /\ ~fault
    /\ k \in HandlerCalls \ {"none"}
    /\ LET name == th[t].msg.payload.params.name.s
       IN  \E o \in RelockOutcomes :
               IF o = "deadlock"
               THEN /\ th' = [th EXCEPT ![t].pc = "deadlocked"]
                    /\ UNCHANGED <<out, mutex>>
               ELSE /\ out' = [out EXCEPT ![t] = Append(@, EvTool(name, handlers[name], "throw"))]
                    /\ th' = [th EXCEPT ![t].pc = "sendResponse",
                                        ![t].plan.body.isError = TRUE]
                    /\ mutex' = "free"
    /\ UNCHANGED <<running, mqttClient, serverId, serverName, clientSessions, tools, handlers,
                   transport, api, sessionSeq, starts, phase, fault>>

\* handleInitializedNotification, all of it under sessionsMutex_, with a
\* client-connected callback that makes call k.  getConnectedClients() locks
\* sessionsMutex_, which this thread holds.
handleInitializedNotificationWith(t, k) ==
    /\ th[t].pc = "handleInitializedNotification" /\ ~fault
    /\ LET c == th[t].plan.c
           called == Append(out[t], EvCallback("connected", c, clientSessions[c].gen))
       IN  IF c \in DOMAIN clientSessions
           THEN /\ clientSessions' = [clientSessions EXCEPT ![c].initialized = TRUE]
                /\ IF k = "getConnectedClients"
                   THEN /\ \E o \in RelockOutcomes :
                              IF o = "deadlock"
                              THEN /\ th' = [th EXCEPT ![t].pc = "deadlocked"]
                                   /\ out' = [out EXCEPT ![t] = called]
                              ELSE /\ th' = [th EXCEPT ![t].pc = "done"]
                                   /\ out' = [out EXCEPT ![t] = Append(called, EvThrow)]
                        /\ UNCHANGED toolManager
                   ELSE /\ th' = [th EXCEPT ![t].pc = "done"]
                        /\ out' = [out EXCEPT ![t] = called]
                        /\ tools' = CallbackTools(tools, k)
                        /\ handlers' = CallbackTools(handlers, k)
           ELSE /\ th' = [th EXCEPT ![t].pc = "done"]
                /\ UNCHANGED <<clientSessions, out, toolManager>>
    /\ UNCHANGED <<running, mqttClient, serverId, serverName, mutex, transport, api,
                   sessionSeq, starts, phase, fault>>

\* handleInitializedNotification with a callback that does not call the engine
handleInitializedNotification(t) == handleInitializedNotificationWith(t, "none")

\* Mutant of cleanupClientSession_erase: no early return when the session is
\* absent.
cleanupClientSession_erase_NoReturn(t) ==
    /\ th[t].pc = "cleanupClientSession" /\ ~fault
    /\ LET c == th[t].plan.c
       IN  IF c \in DOMAIN clientSessions
           THEN /\ clientSessions' = [k \in DOMAIN clientSessions \ {c} |-> clientSessions[k]]
                /\ th' = [th EXCEPT ![t].pc = "cleanupClientSession_unsubscribe",
                                    ![t].gen = clientSessions[c].gen]
           ELSE /\ th' = [th EXCEPT ![t].pc = "cleanupClientSession_unsubscribe"]
                /\ UNCHANGED clientSessions
    /\ UNCHANGED <<toolManager, running, mqttClient, serverId, serverName, transport, api, out,
                   sessionSeq, starts, phase, fault>>

\* Mutant of cleanupClientSession_erase: the session found is left in the
\* table.
cleanupClientSession_erase_Keep(t) ==
    /\ th[t].pc = "cleanupClientSession" /\ ~fault
    /\ LET c == th[t].plan.c
       IN  IF c \in DOMAIN clientSessions
           THEN th' = [th EXCEPT ![t].pc = "cleanupClientSession_unsubscribe",
                                 ![t].gen = clientSessions[c].gen]
           ELSE th' = [th EXCEPT ![t].pc = "done"]
    /\ UNCHANGED <<engine, transport, api, out, sessionSeq, starts, phase, fault>>

\* cleanupClientSession: find and erase under sessionsMutex_, or return
cleanupClientSession_erase(t) ==
    /\ th[t].pc = "cleanupClientSession" /\ ~fault
    /\ LET c == th[t].plan.c
       IN  IF c \in DOMAIN clientSessions
           THEN /\ clientSessions' = [k \in DOMAIN clientSessions \ {c} |-> clientSessions[k]]
                /\ th' = [th EXCEPT ![t].pc = "cleanupClientSession_unsubscribe",
                                    ![t].gen = clientSessions[c].gen]
           ELSE /\ th' = [th EXCEPT ![t].pc = "done"]
                /\ UNCHANGED clientSessions
    /\ UNCHANGED <<toolManager, running, mqttClient, serverId, serverName, transport, api, out,
                   sessionSeq, starts, phase, fault>>

\* cleanupClientSession: the two unsubscribe calls
cleanupClientSession_unsubscribe(t) ==
    /\ th[t].pc = "cleanupClientSession_unsubscribe" /\ ~fault
    /\ IF ~mqttClient THEN threadFault(t)
       ELSE LET c == th[t].plan.c
            IN  /\ subs' = Unsubscribed(Unsubscribed(subs, getRpcTopic(c)),
                                        getClientPresenceTopic(c))
                /\ out' = [out EXCEPT ![t] = @ \o <<EvUnsubscribe(getRpcTopic(c)),
                                                    EvUnsubscribe(getClientPresenceTopic(c))>>]
                /\ th' = [th EXCEPT ![t].pc = "cleanupClientSession_callback"]
                /\ UNCHANGED <<engine, connected, handlerSet, lostCbSet, retained, api,
                               sessionSeq, starts, phase, fault>>

\* cleanupClientSession: clientDisconnectedCallback_(mcpClientId), with a
\* callback that makes call k; no lock is held here.
cleanupClientSession_callbackWith(t, k) ==
    /\ th[t].pc = "cleanupClientSession_callback" /\ ~fault
    /\ out' = [out EXCEPT ![t] = Append(@, EvCallback("disconnected", th[t].plan.c, th[t].gen))]
    /\ th' = [th EXCEPT ![t].pc = "done"]
    /\ tools' = CallbackTools(tools, k)
    /\ handlers' = CallbackTools(handlers, k)
    /\ UNCHANGED <<running, mqttClient, serverId, serverName, clientSessions, mutex, transport, api,
                   sessionSeq, starts, phase, fault>>

\* cleanupClientSession: the callback, when it does not call the engine
cleanupClientSession_callback(t) == cleanupClientSession_callbackWith(t, "none")

\* The handler call on thread t has returned to the transport.
handlerReturn(t) ==
    /\ th[t].pc = "done" /\ ~fault
    /\ th' = [th EXCEPT ![t] = Idle]
    /\ out' = [out EXCEPT ![t] = <<>>]
    /\ UNCHANGED <<engine, transport, api, sessionSeq, starts, phase, fault>>

\* One step of a handler call in progress on thread t
handlerStep(t) ==
    \/ handleInitialize_subscribe(t)
    \/ handleInitialize_store(t)
    \/ respond(t)
    \/ handleInitializedNotification(t)
    \/ cleanupClientSession_erase(t)
    \/ cleanupClientSession_unsubscribe(t)
    \/ cleanupClientSession_callback(t)
    \/ handlerReturn(t)

\* One step of a stop() call in progress
stopStep == clearPresence \/ cleanupSubscriptions \/ stop_release

\* ------------------------------------------------------- specifications

\* Calls one at a time: a call starts when no other is in progress.  The
\* embedder starts and stops the server with either configuration, the
\* connection comes and goes, and clients send the messages of a session's life.
Next ==
    \/ \E tp \in BOOLEAN, cfg \in Configs : Quiet /\ start(tp, cfg)
    \/ Quiet /\ stop
    \/ stopStep
    \/ apiReturn
    \/ \E m \in CoreMsgs : Quiet /\ deliver("d1", m)
    \/ handlerStep("d1")
    \/ Quiet /\ connectionLost
    \/ Quiet /\ reconnect

Spec == Init /\ [][Next]_vars

\* Calls one at a time, with every shape of inbound message, over one
\* start ... stop of the server.
DispatchConfig == [serverId |-> <<"s1">>, serverName |-> <<"demo", "calc">>]

NextDispatch ==
    \/ Quiet /\ starts = 0 /\ start(TRUE, DispatchConfig)
    \/ Quiet /\ stop
    \/ stopStep
    \/ apiReturn
    \/ \E m \in Inbound : Quiet /\ deliver("d1", m)
    \/ handlerStep("d1")
    \/ getToolsJson("d1")
    \/ callTool("d1")
    \/ Quiet /\ reconnect

SpecDispatch == Init /\ [][NextDispatch]_vars

\* Calls that overlap: the embedder's thread and two delivery threads of the
\* transport, each step of a call interleaved with the steps of the others.
ConcMsgs ==
    {Msg("control", Client1, getControlTopic, Prop(Client1),
         Request(JNum(1), "initialize", InitParams(PNoId, JStr(MCP_PROTOCOL_VERSION)))),
     Msg("rpc", Client1, getRpcTopic(Client1), NoProp, Notification("notifications/initialized")),
     Msg("rpc", Client1, getRpcTopic(Client1), NoProp, Notification("notifications/disconnected")),
     Msg("rpc", Client1, getRpcTopic(Client1), NoProp, Request(JNum(1), "ping", NoParams)),
     Msg("presence", Client1, getClientPresenceTopic(Client1), NoProp,
         Notification("notifications/disconnected"))}

NextConc ==
    \/ starts = 0 /\ start(TRUE, DispatchConfig)
    \/ stop
    \/ stopStep
    \/ apiReturn
    \/ \E t \in Threads, m \in ConcMsgs : deliver(t, m)
    \/ \E t \in Threads : handlerStep(t)
    \/ reconnect

SpecConc == Init /\ [][NextConc]_vars

\* Calls one at a time: the embedder registers and unregisters tools while
\* a client sends tool requests, requests with other methods and messages on
\* topics that are not the server's.
ToolNames == {"add", "sub"}
ToolVersions == {1, 2}

ToolMsgs ==
    {Msg("rpc", Client1, getRpcTopic(Client1), NoProp, p) :
        p \in {Request(JNum(1), "tools/call", Params(PNoId, JAbsent, name))
                  : name \in {JStr("add"), JStr("sub"), JStr("mul"), JAbsent, JNum(1)}}
              \cup {Request(JStr("1"), "tools/call", Params(PNoId, JAbsent, JStr("add"))),
                    Request(JNum(1), "tools/call", NoParams),
                    Request(JNum(1), "tools/list", NoParams),
                    Request(JNum(1), "ping", NoParams),
                    Request(JNum(1), "initialize", NoParams),
                    Request(JNum(1), "", NoParams)}
              \cup {Request(id, "foo/bar", NoParams) : id \in ReqIds \cup {JNull, JFloat}}}
    \cup OtherMsgs

NextTools ==
    \/ Quiet /\ starts = 0 /\ start(TRUE, DispatchConfig)
    \/ \E name \in ToolNames, v \in ToolVersions : Quiet /\ registerTool(name, v)
    \/ \E name \in ToolNames : Quiet /\ unregisterTool(name)
    \/ apiReturn
    \/ \E m \in ToolMsgs : Quiet /\ deliver("d1", m)
    \/ getToolsJson("d1")
    \/ callTool("d1")
    \/ respond("d1")
    \/ handlerReturn("d1")

SpecTools == Init /\ [][NextTools]_vars

\* Calls one at a time, with client-connected and client-disconnected
\* callbacks that call back into the engine.
CallbackMsgs ==
    {Msg("control", c, getControlTopic, Prop(c),
         Request(JNum(1), "initialize", InitParams(PNoId, JStr(MCP_PROTOCOL_VERSION))))
        : c \in ClientIds}
    \cup {Msg("rpc", c, getRpcTopic(c), NoProp, Notification(me))
            : c \in ClientIds,
              me \in {"notifications/initialized", "notifications/disconnected"}}
    \cup {Msg("presence", Client1, getClientPresenceTopic(Client1), NoProp,
              Notification("notifications/disconnected"))}

NextCallbacks ==
    \/ Quiet /\ starts = 0 /\ start(TRUE, DispatchConfig)
    \/ apiReturn
    \/ \E m \in CallbackMsgs : Quiet /\ deliver("d1", m)
    \/ handleInitialize_subscribe("d1")
    \/ handleInitialize_store("d1")
    \/ respond("d1")
    \/ \E k \in CallbackCalls : handleInitializedNotificationWith("d1", k)
    \/ cleanupClientSession_erase("d1")
    \/ cleanupClientSession_unsubscribe("d1")
    \/ \E k \in CallbackCalls : cleanupClientSession_callbackWith("d1", k)
    \/ handlerReturn("d1")

SpecCallbacks == Init /\ [][NextCallbacks]_vars

\* Calls one at a time: client c1 opens a session, sends or does not send
\* notifications/initialized, and sends ping, tools/list and tools/call
\* requests, while the embedder registers a tool.
RequestMethods == {"ping", "tools/list", "tools/call"}

RequestMsgs ==
    {Msg("control", Client1, getControlTopic, Prop(Client1),
         Request(JNum(1), "initialize", InitParams(PNoId, JStr(MCP_PROTOCOL_VERSION)))),
     Msg("rpc", Client1, getRpcTopic(Client1), NoProp, Notification("notifications/initialized"))}
    \cup {Msg("rpc", Client1, getRpcTopic(Client1), NoProp,
              Request(id, me, Params(PNoId, JAbsent, JStr(name))))
            : id \in {JNum(1), JStr("1")}, me \in RequestMethods, name \in ToolNames}

NextRequests ==
    \/ Quiet /\ starts = 0 /\ start(TRUE, DispatchConfig)
    \/ Quiet /\ registerTool("add", 1)
    \/ apiReturn
    \/ \E m \in RequestMsgs : Quiet /\ deliver("d1", m)
    \/ handleInitialize_subscribe("d1")
    \/ handleInitialize_store("d1")
    \/ handleInitializedNotification("d1")
    \/ getToolsJson("d1")
    \/ callTool("d1")
    \/ respond("d1")
    \/ handlerReturn("d1")

SpecRequests == Init /\ [][NextRequests]_vars

\* Calls that overlap on the tool registry: two delivery threads handle
\* tools/call and tools/list requests of two clients while the embedder's
\* thread registers and unregisters the tool.
ToolConcMsgs ==
    {Msg("rpc", c, getRpcTopic(c), NoProp, p)
        : c \in ClientIds,
          p \in {Request(JNum(1), "tools/call", Params(PNoId, JAbsent, JStr("add"))),
                 Request(JNum(1), "tools/list", NoParams)}}

NextToolsConc ==
    \/ Quiet /\ starts = 0 /\ start(TRUE, DispatchConfig)
    \/ registerTool("add", 1)
    \/ unregisterTool("add")
    \/ apiReturn
    \/ \E t \in Threads, m \in ToolConcMsgs : deliver(t, m)
    \/ \E t \in Threads : callTool_invoke(t)
    \/ \E t \in Threads : callTool_return(t)
    \/ \E t \in Threads : getToolsJson(t)
    \/ \E t \in Threads : respond(t)
    \/ \E t \in Threads : handlerReturn(t)

SpecToolsConc == Init /\ [][NextToolsConc]_vars

\* Calls one at a time, with a transport whose subscribe and publish can
\* return false: clients open sessions, send requests and leave.
NextTransportErrors ==
    \/ Quiet /\ starts = 0 /\ start(TRUE, DispatchConfig)
    \/ apiReturn
    \/ \E m \in CoreMsgs : Quiet /\ deliver("d1", m)
    \/ \E ok1, ok2 \in BOOLEAN : handleInitialize_subscribeWith("d1", ok1, ok2)
    \/ handleInitialize_store("d1")
    \/ \E ok \in BOOLEAN : respondWith("d1", ok)
    \/ handleInitializedNotification("d1")
    \/ cleanupClientSession_erase("d1")
    \/ cleanupClientSession_unsubscribe("d1")
    \/ cleanupClientSession_callback("d1")
    \/ handlerReturn("d1")

SpecTransportErrors == Init /\ [][NextTransportErrors]_vars

\* Two requests of client c1 in the order the broker delivers them: the
\* first is handed to delivery thread d1, the second to d2 while the call on
\* d1 is still in progress, and the two calls overlap from there on.
OrderMsgs ==
    {Msg("rpc", Client1, getRpcTopic(Client1), NoProp, p)
        : p \in {Request(JNum(1), "ping", NoParams),
                 Request(JStr("1"), "ping", NoParams),
                 Request(JNum(1), "tools/list", NoParams),
                 Request(JNum(1), "tools/call", Params(PNoId, JAbsent, JStr("add")))}}

NextOrder ==
    \/ Quiet /\ starts = 0 /\ start(TRUE, DispatchConfig)
    \/ Quiet /\ registerTool("add", 1)
    \/ apiReturn
    \/ \E m \in OrderMsgs : th["d2"].pc = "idle" /\ deliver("d1", m)
    \/ \E m \in OrderMsgs : th["d1"].pc # "idle" /\ deliver("d2", m)
    \/ \E t \in Threads : callTool_invoke(t)
    \/ \E t \in Threads : callTool_return(t)
    \/ \E t \in Threads : getToolsJson(t)
    \/ \E t \in Threads : respond(t)
    \/ \E t \in Threads : handlerReturn(t)

SpecOrder == Init /\ [][NextOrder]_vars

\* Tool handlers that call back into the registry of the server that invoked
\* them, on two delivery threads.
NextReentrant ==
    \/ Quiet /\ starts = 0 /\ start(TRUE, DispatchConfig)
    \/ registerTool("add", 1)
    \/ apiReturn
    \/ \E t \in Threads, m \in ToolConcMsgs : deliver(t, m)
    \/ \E t \in Threads : callTool_invoke(t)
    \/ \E t \in Threads : callTool_return(t)
    \/ \E t \in Threads, k \in HandlerCalls : callTool_returnWith(t, k)
    \/ \E t \in Threads : getToolsJson(t)
    \/ \E t \in Threads : respond(t)
    \/ \E t \in Threads : handlerReturn(t)

SpecReentrant == Init /\ [][NextReentrant]_vars

\* stop() overlapping handler calls that began before it released the
\* transport: the transport delivers only while mqttClient_ is set.
NextStopRace ==
    \/ starts = 0 /\ start(TRUE, DispatchConfig)
    \/ stop
    \/ stopStep
    \/ apiReturn
    \/ \E t \in Threads, m \in ConcMsgs : mqttClient /\ deliver(t, m)
    \/ \E t \in Threads : handlerStep(t)

SpecStopRace == Init /\ [][NextStopRace]_vars

\* ------------------------------------------------------------------ claims

\* No call is in progress: every call made so far has completed.
Completed == api.pc \in {"idle", "done"} /\ \A t \in Threads : th[t].pc \in {"idle", "done"}

StopReturned == api.pc = "done" /\ api.op = "stop"

Publishes(log) == {i \in 1..Len(log) : log[i].e = "publish"}

\* C1 (as claimed): whenever every call made so far has completed, a client
\* id is in the session table exactly when the transport holds the
\* subscriptions to that client's RPC topic and presence topic.
C1_SessionBijection ==
    Completed =>
        \A c \in ClientIds :
            IF c \in DOMAIN clientSessions
            THEN Holds(getRpcTopic(c)) /\ Holds(getClientPresenceTopic(c))
            ELSE ~Holds(getRpcTopic(c)) /\ ~Holds(getClientPresenceTopic(c))

\* C2 (as claimed): once start() has returned true and while no stop() has
\* been called, the last retained payload on the server's presence topic is
\* the online notification; once stop() has returned it is the empty payload.
C2_PresenceConsistency ==
    /\ (phase = "started" /\ api.pc \in {"idle", "done"})
           => LastRetained(getPresenceTopic) = "online"
    /\ (phase = "stopped" /\ starts > 0)
           => LastRetained(getPresenceTopic) = "empty"

\* C3: every publish a handler call makes for a message of client X is on
\* $mcp-rpc/X/{serverId}/{serverName} with the two server user properties;
\* so is every disconnected notification stop() publishes, one client each.
C3_ResponseAddressing ==
    /\ \A t \in Threads : \A i \in Publishes(out[t]) :
           /\ out[t][i].topic = RpcTopicOf(th[t].msg.x, serverId, serverName)
           /\ out[t][i].props = [ctype |-> "mcp-server", cid |-> serverId]
    /\ api.op = "stop" =>
           \A i \in Publishes(out["api"]) :
               out["api"][i].body.kind = "notification" =>
                   /\ \E c \in ClientIds :
                          out["api"][i].topic = RpcTopicOf(c, serverId, serverName)
                   /\ out["api"][i].props = [ctype |-> "mcp-server", cid |-> serverId]
                   /\ \A k \in Publishes(out["api"]) :
                          out["api"][k].topic = out["api"][i].topic => k = i

\* C3 witness: an error response to a request on c1's RPC topic was published.
C3_Witness ==
    /\ th["d1"].pc = "done"
    /\ th["d1"].msg.chan = "rpc"
    /\ th["d1"].msg.x = Client1
    /\ \E i \in Publishes(out["d1"]) : out["d1"][i].body.kind = "error"

\* C4 (as claimed): the response to a request whose id is an integer or a
\* string carries that id, same type and value.
C4_IdEcho ==
    \A t \in Threads :
        th[t].msg.payload.id.t \in {"num", "str"} =>
            \A i \in Publishes(out[t]) :
                out[t][i].body.kind \in {"result", "error"} =>
                    out[t][i].body.id = th[t].msg.payload.id

\* C5 (as claimed): when stop() has returned the session table is empty, the
\* transport pointer is null and running is false.
C5_StoppedState ==
    StopReturned => clientSessions = NoSessions /\ ~mqttClient /\ ~running

\* C6 (as claimed, for a stop() that found the server running): when stop()
\* has returned the transport holds no subscription for the engine.
C6_NoSubscriptionAfterStop ==
    (StopReturned /\ api.ret) => subs = {}

\* C7 (as claimed): once stop() has returned (and until the next start), a
\* message the transport delivers makes the engine do nothing: no transport
\* call, no callback, no exception, no fault.
C7_HandlerRelinquished ==
    phase = "stopped" => ~fault /\ \A t \in Threads : out[t] = <<>>

\* C8: start returns false exactly when the engine is running, the transport
\* argument is null or the transport is not connected, and then it changes
\* neither the handler slots, the subscriptions, the retained payloads,
\* serverId, serverName, the session table nor running, and makes no
\* transport call.
C8_StartFails ==
    [][\A tp \in BOOLEAN, cfg \in Configs :
          start(tp, cfg) =>
              /\ api'.ret = ~(running \/ ~tp \/ ~connected)
              /\ ~api'.ret =>
                    /\ UNCHANGED <<handlerSet, lostCbSet, subs, retained, serverId,
                                   serverName, clientSessions, running>>
                    /\ out'["api"] = <<>>]_vars

\* C8 witness: start was called on a running server and returned false.
C8_Witness == api.pc = "done" /\ api.op = "start" /\ ~api.ret /\ running /\ connected

\* A control-topic message that is no initialize carrying a client id
NotAnInitialize(m) ==
    m.chan = "control" /\ (m.payload.method # JStr("initialize") \/ m.x = EmptyStr)

\* C9: a step adds a client id to the session table only while handling an
\* initialize request of the control topic that carries that, non-empty,
\* client id; and a control-topic message with another method or without a
\* client id makes the engine publish nothing.
C9_SessionOnlyByInitialize ==
    [][/\ \A c \in DOMAIN clientSessions' \ DOMAIN clientSessions :
              \E t \in Threads :
                  /\ th[t].msg.chan = "control"
                  /\ th[t].msg.payload.method = JStr("initialize")
                  /\ th[t].msg.x = c /\ c # EmptyStr
       /\ \A t \in Threads :
              NotAnInitialize(th'[t].msg) =>
                  /\ Publishes(out'[t]) = {}
                  /\ th'[t].pc = "done" => clientSessions' = clientSessions]_vars

\* C9 witness: with a session open for c2, a ping on the control topic that
\* names c1 has been handled and c1 has no session.
C9_Witness ==
    /\ th["d1"].pc = "done"
    /\ th["d1"].msg.chan = "control"
    /\ th["d1"].msg.payload.method = JStr("ping")
    /\ th["d1"].msg.x = Client1
    /\ DOMAIN clientSessions = {Client2}

\* The sessions a call in progress (or just completed) removed from the table:
\* by cleanupClientSession on a delivery thread, by stop() on the embedder's.
RemovedBy(t) ==
    IF th[t].plan.act = "disconnected" /\ th[t].gen > 0 THEN {th[t].gen} ELSE {}
RemovedByStop ==
    IF api.op = "stop"
    THEN {out["api"][i].gen : i \in {k \in Publishes(out["api"]) :
                                        out["api"][k].body.kind = "notification"}}
    ELSE {}
DisconnectedCallbacks(t) == {i \in 1..Len(out[t]) : out[t][i].e = "disconnected"}

\* C10: a session is removed from the table by at most one of the calls that
\* race for it, and the client-disconnected callback fires at most once for
\* it: only in the call that removed it, and once.  A session a call removed
\* is no longer in the table.
C10_DestroyedOnce ==
    /\ \A t1, t2 \in Threads : t1 # t2 => RemovedBy(t1) \cap RemovedBy(t2) = {}
    /\ \A t \in Threads : RemovedBy(t) \cap RemovedByStop = {}
    /\ \A t \in Threads :
           /\ Cardinality(DisconnectedCallbacks(t)) <= 1
           /\ \A i \in DisconnectedCallbacks(t) :
                  out[t][i].gen > 0 /\ out[t][i].gen \in RemovedBy(t)
    /\ \A c \in DOMAIN clientSessions :
           clientSessions[c].gen \notin
               RemovedByStop \cup UNION {RemovedBy(t) : t \in Threads}

\* C10 witness: notifications/disconnected on c1's RPC topic, the same on
\* c1's presence topic and stop() overlapped; the first removed the session
\* and fired the callback, the second found no session.
C10_Witness ==
    /\ th["d1"].pc = "done" /\ th["d1"].msg.chan = "rpc"
    /\ th["d1"].plan.act = "disconnected" /\ th["d1"].gen > 0
    /\ DisconnectedCallbacks("d1") # {}
    /\ th["d2"].pc = "done" /\ th["d2"].msg.chan = "presence"
    /\ th["d2"].plan.act = "disconnected" /\ th["d2"].gen = 0
    /\ api.op = "stop" /\ api.pc = "release"

\* The calls handling an initialize that went past the table update, or ended
InitializeStored(t) ==
    th[t].plan.act = "initialize" /\ th[t].pc \in {"sendResponse", "done"}

\* C11: an initialize request on the control topic that names client c (the
\* protocol version it asks for, if any, being a string) stores a session for
\* c with initialized = false and the version the client asked for, and
\* publishes exactly one message: a success response on c's RPC topic with
\* the server's own protocol version, its capabilities and serverInfo.
C11_InitializeResult ==
    \A t \in Threads :
        LET c == th[t].plan.c
            asked == th[t].msg.payload.params.protocolVersion
        IN  /\ InitializeStored(t) =>
                /\ th[t].msg.chan = "control" /\ c = th[t].msg.x /\ c # EmptyStr
                /\ c \in DOMAIN clientSessions
                /\ clientSessions[c].initialized = FALSE
                /\ asked.t = "str" => clientSessions[c].protocolVersion = asked.s
                /\ asked.t = "absent" => clientSessions[c].protocolVersion = MCP_PROTOCOL_VERSION
            /\ (InitializeStored(t) /\ th[t].pc = "done") =>
                /\ Cardinality(Publishes(out[t])) = 1
                /\ \A i \in Publishes(out[t]) :
                       /\ out[t][i].topic = RpcTopicOf(c, serverId, serverName)
                       /\ out[t][i].body.kind = "result"
                       /\ out[t][i].body.what = "initialize"
                       /\ out[t][i].body.protocolVersion = "2024-11-05"

\* C11 witness: c1 asked for another version than the server's; the session
\* records the client's, the response carries the server's.
C11_Witness ==
    /\ th["d1"].pc = "done" /\ th["d1"].plan.act = "initialize"
    /\ th["d1"].msg.payload.params.protocolVersion = JStr("2025-03-26")
    /\ Client1 \in DOMAIN clientSessions
    /\ clientSessions[Client1].protocolVersion = "2025-03-26"
    /\ \E i \in Publishes(out["d1"]) : out["d1"][i].body.protocolVersion = "2024-11-05"

\* What a notifications/disconnected for client c does once the session is
\* removed, in order
DisconnectSteps(c, gen) ==
    <<EvUnsubscribe(getRpcTopic(c)), EvUnsubscribe(getClientPresenceTopic(c)),
      EvCallback("disconnected", c, gen)>>

\* C12: a notifications/disconnected for a client c with a live session, on
\* c's RPC topic or c's presence topic, removes the session first, then
\* unsubscribes from c's RPC topic and c's presence topic, then fires
\* client-disconnected(c); nothing else, and all of it by the time the
\* handler returns.
C12_DisconnectOrder ==
    \A t \in Threads :
        (th[t].plan.act = "disconnected" /\ th[t].gen > 0) =>
            LET c == th[t].plan.c
                steps == DisconnectSteps(c, th[t].gen)
            IN  /\ th[t].msg.chan \in {"rpc", "presence"} /\ c = th[t].msg.x
                /\ \A k \in DOMAIN clientSessions : clientSessions[k].gen # th[t].gen
                /\ Len(out[t]) <= 3
                /\ out[t] = SubSeq(steps, 1, Len(out[t]))
                /\ th[t].pc = "cleanupClientSession_callback" => Len(out[t]) = 2
                /\ th[t].pc = "done" => out[t] = steps

\* C12 witness: a disconnected notification on c1's presence topic found c1's
\* session and ran to the end.
C12_Witness ==
    /\ th["d1"].pc = "done" /\ th["d1"].msg.chan = "presence"
    /\ th["d1"].plan.act = "disconnected" /\ th["d1"].gen > 0
    /\ out["d1"] = DisconnectSteps(Client1, th["d1"].gen)
    /\ Client1 \notin DOMAIN clientSessions

\* C13 (as claimed): a client-connected or client-disconnected callback that
\* calls connectedClients(), registerTool, unregisterTool or getTools on the
\* engine returns: no handler call is left blocked on the session-table
\* lock, and no failure of the lock leaves the handler.
C13_CallbacksOutsideLock ==
    \A t \in Threads :
        /\ th[t].pc # "deadlocked"
        /\ \A i \in 1..Len(out[t]) : out[t][i].e # "throw"

\* C14 (as claimed): whatever payload is delivered on the control topic, an
\* RPC topic or a client-presence topic, the message handler returns to the
\* transport normally: no exception leaves it.
C14_NoFailureEscapes ==
    \A t \in Threads :
        th[t].msg.chan \in {"control", "rpc", "presence"} =>
            ~\E i \in 1..Len(out[t]) : out[t][i] = EvThrow

\* The tool handlers a call invoked
ToolInvocations(t) == {i \in 1..Len(out[t]) : out[t][i].e = "tool"}

\* A completed call for a tools/call request that names a tool
ToolCallDone(t) ==
    /\ th[t].pc = "done"
    /\ th[t].plan.act = "callTool"
    /\ th[t].msg.payload.method = JStr("tools/call")

\* The tool call failed: the name is not registered, or the handler threw or
\* reported failure.
ToolCallFailed(t) ==
    \/ th[t].msg.payload.params.name.s \notin DOMAIN handlers
    \/ \E i \in ToolInvocations(t) : out[t][i].body.what \in {"error", "throw"}

\* C15: a tools/call whose tool is not registered, whose handler throws or
\* whose handler reports failure is answered with one JSON-RPC success
\* response whose result has isError = true (and a tools/call whose handler
\* succeeds with one whose result has not); no JSON-RPC error is published
\* for a tools/call that names a tool, and the handler returns to the
\* transport, which can deliver the next request.
C15_ToolErrorsInResult ==
    \A t \in Threads :
        ToolCallDone(t) =>
            /\ Cardinality(Publishes(out[t])) = 1
            /\ \A i \in Publishes(out[t]) :
                   /\ out[t][i].body.kind = "result"
                   /\ out[t][i].body.what = "tools/call"
                   /\ out[t][i].body.isError = ToolCallFailed(t)
            /\ ~fault
            /\ ENABLED handlerReturn(t)

\* C15 witness: the handler of a registered tool threw and the response is a
\* result with isError.
C15_Witness ==
    /\ ToolCallDone("d1")
    /\ th["d1"].msg.payload.params.name.s \in DOMAIN handlers
    /\ \E i \in ToolInvocations("d1") : out["d1"][i].body.what = "throw"
    /\ \E i \in Publishes(out["d1"]) :
           out["d1"][i].body.kind = "result" /\ out["d1"][i].body.isError

\* A completed call for a tools/call request without usable params.name
BadToolCallDone(t) ==
    /\ th[t].pc = "done"
    /\ th[t].msg.chan = "rpc"
    /\ th[t].msg.payload.method = JStr("tools/call")
    /\ th[t].msg.payload.id.t # "absent"
    /\ \/ ~th[t].msg.payload.params.has
       \/ th[t].msg.payload.params.name.t # "str"

\* C16 (as claimed): a tools/call request whose params are absent, lack name
\* or have a name that is not a string is answered with exactly one error
\* response, with code -32602 and the request's id, and no tool handler is
\* invoked.
C16_InvalidParams ==
    \A t \in Threads :
        BadToolCallDone(t) =>
            /\ Cardinality(Publishes(out[t])) = 1
            /\ \A i \in Publishes(out[t]) :
                   /\ out[t][i].body.kind = "error"
                   /\ out[t][i].body.code = -32602
                   /\ out[t][i].body.id = th[t].msg.payload.id
            /\ ToolInvocations(t) = {}

\* A completed call for a request, on an RPC topic, with a method that is
\* none of ping, tools/list and tools/call
UnknownMethodDone(t) ==
    /\ th[t].pc = "done"
    /\ th[t].msg.chan = "rpc"
    /\ parseClientIdFromRpcTopic(th[t].msg.topic).ok
    /\ th[t].msg.payload.kind = "object"
    /\ th[t].msg.payload.jsonrpc = "2.0"
    /\ th[t].msg.payload.id.t # "absent"
    /\ th[t].msg.payload.method.t = "str"
    /\ th[t].msg.payload.method.s \notin {"ping", "tools/list", "tools/call"}

\* C17 (as claimed): a request on an RPC topic whose method is none of ping,
\* tools/list and tools/call is answered with exactly one error response,
\* with code -32601 and the request's id.
C17_MethodNotFound ==
    \A t \in Threads :
        UnknownMethodDone(t) =>
            /\ Cardinality(Publishes(out[t])) = 1
            /\ \A i \in Publishes(out[t]) :
                   /\ out[t][i].body.kind = "error"
                   /\ out[t][i].body.code = -32601
                   /\ out[t][i].body.id = th[t].msg.payload.id

\* C18: registerTool returns false and changes nothing when the name is
\* registered, and registers the tool otherwise; a registration that stands
\* is never replaced; every registered name has one declaration and one
\* handler, those of one registration; and a tools/call for a registered
\* name invokes that handler, once, and no other.
C18_ToolUniqueness ==
    /\ [](/\ DOMAIN tools = DOMAIN handlers
          /\ \A n \in DOMAIN tools : tools[n] = handlers[n]
          /\ \A t \in Threads :
                 (ToolCallDone(t) /\ th[t].msg.payload.params.name.s \in DOMAIN handlers) =>
                     /\ Cardinality(ToolInvocations(t)) = 1
                     /\ \A i \in ToolInvocations(t) :
                            /\ out[t][i].topic = <<th[t].msg.payload.params.name.s>>
                            /\ out[t][i].gen = handlers[th[t].msg.payload.params.name.s])
    /\ [][/\ \A name \in ToolNames, v \in ToolVersions :
                 registerTool(name, v) =>
                     IF name \in DOMAIN tools
                     THEN ~api'.ret /\ UNCHANGED <<engine, transport, th, sessionSeq>>
                     ELSE api'.ret /\ name \in DOMAIN tools'
                          /\ tools'[name] = v /\ handlers'[name] = v
          /\ \A n \in DOMAIN tools \cap DOMAIN tools' :
                 tools'[n] = tools[n] /\ handlers'[n] = handlers[n]]_vars

\* C18 witness: registerTool was refused for "add", which stays registered
\* with the declaration and handler of the second version.
C18_Witness ==
    /\ api.pc = "done" /\ api.op = "registerTool" /\ ~api.ret
    /\ "add" \in DOMAIN tools /\ tools["add"] = 2 /\ handlers["add"] = 2

\* A start() call returns true in this step.
StartSucceeds == api.pc = "idle" /\ api'.pc = "done" /\ api'.op = "start" /\ api'.ret
\* A stop() call returns in this step.
StopReturns == api.pc # "done" /\ api'.pc = "done" /\ api'.op = "stop"
\* The transport loses its connection in this step.
ConnectionIsLost == connected /\ ~connected'

\* C19 as stated: between calls, isRunning() is true if and only if a start
\* has completed successfully with no stop since and the transport reports
\* connected.
C19_RunningIffStartedAndConnected ==
    api.pc \in {"idle", "done"} => (isRunning <=> (phase = "started" /\ connected))

\* C19 amended: isRunning() is true if and only if a start has completed
\* successfully with no stop and no connection-lost event since, and then the
\* transport reports connected: a successful start makes it true, the return
\* of stop and the loss of the connection make it false, and nothing else
\* changes it, a reconnection included.
C19_RunningSinceStart ==
    /\ [](isRunning => connected)
    /\ [][/\ StartSucceeds => isRunning'
          /\ StopReturns => ~isRunning'
          /\ ConnectionIsLost => ~isRunning'
          /\ (~isRunning /\ isRunning') => StartSucceeds
          /\ (isRunning /\ ~isRunning') => (StopReturns \/ ConnectionIsLost)]_vars

\* C19 witness: the server was started, the connection was lost and is back,
\* no stop was called, and isRunning() answers false.
C19_Witness ==
    /\ api.pc = "idle" /\ phase = "started" /\ connected /\ mqttClient
    /\ ~running /\ ~isRunning

\* A topic outside the three prefixes, or with one of them and neither an RPC
\* topic, the server's own control topic nor a client-presence topic
Unrouted(topic) ==
    \/ ~isMcpTopic(topic)
    \/ /\ ~StartsWith(topic, MCP_RPC_PREFIX)
       /\ topic # getControlTopic
       /\ ~StartsWith(topic, CLIENT_PRESENCE_PREFIX)

\* C20: a message on a topic outside the three prefixes, or on an MCP topic
\* that is neither an RPC topic, the own control topic nor a client-presence
\* topic, is dropped on delivery: the session table, the subscriptions, the
\* retained messages and the tool registry stay as they are, and the handler
\* returns with no publish, no subscription call and no callback.
C20_UnroutedDropped ==
    /\ [](\A t \in Threads :
            (th[t].pc # "idle" /\ Unrouted(th[t].msg.topic)) =>
                th[t].pc = "done" /\ out[t] = <<>>)
    /\ [][\A t \in Threads :
            (th[t].pc = "idle" /\ th'[t].pc # "idle" /\ Unrouted(th'[t].msg.topic)) =>
                /\ th'[t].pc = "done" /\ out'[t] = <<>>
                /\ UNCHANGED <<clientSessions, subs, retained, tools, handlers>>]_vars

\* C20 witness: with a session in the table, the handler has dropped a
\* message on another server's control topic.
C20_Witness ==
    /\ th["d1"].pc = "done" /\ out["d1"] = <<>>
    /\ th["d1"].msg.topic = ControlTopicOf(<<"s9">>, <<"else">>)
    /\ Unrouted(th["d1"].msg.topic)
    /\ clientSessions # NoSessions

\* A stop() call begins in this step.
StopCalled == api.pc = "idle" /\ api'.op = "stop"

\* C21: a stop() called after a stop() returned and before the next start,
\* or before any start, finds the server not running and returns at once: it
\* makes no transport call, fires no callback and changes neither the engine
\* nor the transport.
C21_IdempotentStop ==
    /\ [](phase \in {"new", "stopped"} => ~running)
    /\ [][(StopCalled /\ phase \in {"new", "stopped"}) =>
              /\ api'.pc = "done" /\ out'["api"] = <<>>
              /\ UNCHANGED <<engine, transport, th, sessionSeq, fault>>
              /\ \A t \in Threads : out'[t] = out[t]]_vars

\* C21 witness: the server was started and stopped, and a second stop() has
\* returned.
C21_Witness ==
    /\ api.pc = "done" /\ api.op = "stop" /\ ~api.ret
    /\ starts > 0 /\ ~mqttClient /\ phase = "stopped"

\* The subscribe calls in a handler call's log for topic with option noLocal
SubscribeCalls(t, topic, noLocal) ==
    {i \in 1..Len(out[t]) : out[t][i] = EvSubscribe(topic, noLocal)}

\* C22: in a call handling an initialize for client c, every publish (the
\* initialize response, on c's RPC topic) comes after a subscribe call for
\* c's RPC topic with noLocal and one for c's presence topic without, and
\* when it is made the transport holds both subscriptions.
C22_SubscribeBeforeResponse ==
    /\ [](\A t \in Threads :
            th[t].plan.act = "initialize" =>
                \A i \in Publishes(out[t]) :
                    /\ out[t][i].topic = getRpcTopic(th[t].plan.c)
                    /\ \E j \in SubscribeCalls(t, getRpcTopic(th[t].plan.c), TRUE) : j < i
                    /\ \E j \in SubscribeCalls(t, getClientPresenceTopic(th[t].plan.c), FALSE) :
                           j < i)
    /\ [][\A t \in Threads :
            (th[t].plan.act = "initialize" /\ Publishes(out'[t]) # Publishes(out[t])) =>
                /\ [topic |-> getRpcTopic(th[t].plan.c), noLocal |-> TRUE] \in subs
                /\ [topic |-> getClientPresenceTopic(th[t].plan.c), noLocal |-> FALSE] \in subs]_vars

\* C22 witness: the initialize of c1 was answered, after the two subscribe
\* calls.
C22_Witness ==
    /\ th["d1"].pc = "done" /\ th["d1"].plan.act = "initialize" /\ th["d1"].plan.c = Client1
    /\ Publishes(out["d1"]) = {3}
    /\ out["d1"][3].body.kind = "result"
    /\ SubscribeCalls("d1", getRpcTopic(Client1), TRUE) = {1}
    /\ SubscribeCalls("d1", getClientPresenceTopic(Client1), FALSE) = {2}

\* The notifications/disconnected a call published on client c's RPC topic
DisconnectedNotifications(log, c) ==
    {i \in Publishes(log) : /\ log[i].topic = getRpcTopic(c)
                            /\ log[i].body = create("notifications/disconnected")}
\* The publishes of the empty retained payload on the server's presence topic
PresenceClears(log) ==
    {i \in Publishes(log) : log[i].topic = getPresenceTopic /\ log[i].flag /\ log[i].body = NoBody}

ConnectedCallbacks(log) == {i \in 1..Len(log) : log[i].e = "connected"}

\* C24 (as claimed): handling a notifications/initialized for a client with a
\* session sets the session's initialized flag and fires the client-connected
\* callback if and only if the flag was not set before, so once per session;
\* for a client without a session it changes nothing and fires no callback.
C24_ConnectedOncePerSession ==
    [][\A t \in Threads :
          (th[t].pc = "handleInitializedNotification" /\ th'[t].pc # th[t].pc) =>
              LET c == th[t].plan.c
              IN  IF c \in DOMAIN clientSessions
                  THEN /\ clientSessions'[c].initialized
                       /\ Cardinality(ConnectedCallbacks(out'[t])) =
                              IF clientSessions[c].initialized THEN 0 ELSE 1
                  ELSE /\ UNCHANGED <<clientSessions, subs>>
                       /\ out'[t] = <<>>]_vars

\* The unsubscribe calls in a handler call's log for topic
UnsubscribeCalls(t, topic) == {i \in 1..Len(out[t]) : out[t][i] = EvUnsubscribe(topic)}

\* C25 (as claimed): a call that handled a notifications/disconnected for
\* client c, on c's RPC topic or presence topic, has unsubscribed from c's RPC
\* topic and from c's presence topic, whether it found a session for c or not.
C25_UnsubscribeRegardless ==
    \A t \in Threads :
        (th[t].pc = "done" /\ th[t].plan.act = "disconnected") =>
            /\ UnsubscribeCalls(t, getRpcTopic(th[t].plan.c)) # {}
            /\ UnsubscribeCalls(t, getClientPresenceTopic(th[t].plan.c)) # {}

\* What a handler call did to the transport or the embedder: its transport
\* calls and the callbacks it fired
Effects(log) ==
    {i \in 1..Len(log) :
        log[i].e \in {"publish", "subscribe", "unsubscribe", "connected", "disconnected"}}

\* A message on a client-presence topic whose payload is empty, or is not
\* empty and has no method notifications/disconnected
IgnoredPresence(m) ==
    /\ StartsWith(m.topic, CLIENT_PRESENCE_PREFIX)
    /\ m.payload.method # JStr("notifications/disconnected")

\* C26: a message on a client's presence topic whose payload is empty, or is
\* not a notifications/disconnected, ends the handler call on delivery: the
\* session table and the subscriptions stay as they are and the call makes
\* no transport call and fires no callback, whether the client has a session
\* or not.  (A method member that is no string makes the call throw, which
\* is C14's matter; the state is left alone all the same.)
C26_PresenceInformational ==
    [][\A t \in Threads :
          (th[t].pc = "idle" /\ th'[t].pc # "idle" /\ IgnoredPresence(th'[t].msg)) =>
              /\ th'[t].pc = "done"
              /\ Effects(out'[t]) = {}
              /\ UNCHANGED <<clientSessions, subs, retained, toolManager>>]_vars

\* C26 witness: c1 has a session, an empty payload arrived on c1's presence
\* topic, and the session and its two subscriptions are still there.
C26_Witness ==
    /\ th["d1"].pc = "done" /\ out["d1"] = <<>>
    /\ th["d1"].msg.topic = getClientPresenceTopic(Client1)
    /\ th["d1"].msg.payload = PayloadOf("empty")
    /\ Client1 \in DOMAIN clientSessions
    /\ Holds(getRpcTopic(Client1)) /\ Holds(getClientPresenceTopic(Client1))

\* A payload that is no JSON-RPC 2.0 message: empty, no JSON, no object, or
\* an object whose jsonrpc member is not "2.0" or whose method member is
\* missing or no string
IllFormed(j) ==
    \/ j.kind # "object"
    \/ j.jsonrpc # JSONRPC_VERSION
    \/ j.method.t # "str"

\* C27 (as claimed): a call that handled an ill-formed payload on a client's
\* RPC topic has published nothing when the payload has no id, and when it
\* has one has published exactly one response: an error PARSE_ERROR or
\* INVALID_REQUEST with that id.
C27_IllFormedAnswered ==
    \A t \in Threads :
        (/\ th[t].pc = "done"
         /\ parseClientIdFromRpcTopic(th[t].msg.topic).ok
         /\ IllFormed(th[t].msg.payload)) =>
            IF contains(th[t].msg.payload, "id")
            THEN /\ Cardinality(Publishes(out[t])) = 1
                 /\ \A i \in Publishes(out[t]) :
                        /\ out[t][i].body.kind = "error"
                        /\ out[t][i].body.code \in {PARSE_ERROR, INVALID_REQUEST}
                        /\ out[t][i].body.id = th[t].msg.payload.id
            ELSE Publishes(out[t]) = {}

\* C28 (as claimed): a call handling a message on an RPC topic whose id
\* member is null publishes nothing, whatever the method.
C28_NullIdIsNotification ==
    \A t \in Threads :
        (StartsWith(th[t].msg.topic, MCP_RPC_PREFIX) /\ th[t].msg.payload.id = JNull) =>
            Publishes(out[t]) = {}

\* A completed call for a ping, tools/list or tools/call request on the RPC
\* topic of a client that has a session
SessionRequestDone(t) ==
    /\ th[t].pc = "done"
    /\ th[t].msg.topic = getRpcTopic(th[t].plan.c)
    /\ th[t].plan.c \in DOMAIN clientSessions
    /\ ~IllFormed(th[t].msg.payload)
    /\ th[t].msg.payload.id.t \in {"num", "str"}
    /\ th[t].msg.payload.method.s \in RequestMethods

\* C29: a ping, tools/list or tools/call on the RPC topic of a client with a
\* session gets one response, the success response to that request, which is
\* the same whether the session's initialized flag is set or not (the flag
\* is no part of it); for tools/call the result's isError says whether the
\* tool call failed.
C29_NoInitializedGate ==
    \A t \in Threads :
        SessionRequestDone(t) =>
            /\ Cardinality(Publishes(out[t])) = 1
            /\ \A i \in Publishes(out[t]) :
                   /\ [out[t][i] EXCEPT !.body.isError = FALSE] =
                          sendResponse(th[t].plan.c,
                                       success(jsonToId(th[t].msg.payload.id),
                                               th[t].msg.payload.method.s))
                   /\ out[t][i].body.isError =
                          (th[t].msg.payload.method.s = "tools/call" /\ ToolCallFailed(t))

\* C29 witness: c1's session is not initialized and c1's tools/call of the
\* registered tool "add" was answered with a result.
C29_Witness ==
    /\ SessionRequestDone("d1")
    /\ ~clientSessions[th["d1"].plan.c].initialized
    /\ th["d1"].msg.payload.method.s = "tools/call"
    /\ th["d1"].msg.payload.params.name.s \in DOMAIN handlers
    /\ \E i \in Publishes(out["d1"]) : out["d1"][i].body.kind = "result"

\* The threads whose tool handler is executing
InHandler == {t \in Threads : th[t].pc = "handler"}

\* A registerTool or unregisterTool call goes through in this step.
RegistryCall ==
    api.pc = "idle" /\ api'.pc = "done" /\ api'.op \in {"registerTool", "unregisterTool"}

\* C30: at most one tool handler executes at a time, the thread that holds
\* the registry's mutex; and while a handler goes on executing, no other
\* thread enters a handler or reads the tool list, no registerTool or
\* unregisterTool goes through, and the registry stays as it is.
C30_ToolCallsSerialized ==
    /\ [](/\ Cardinality(InHandler) <= 1
          /\ \A t \in Threads : t \in InHandler <=> mutex = t)
    /\ [][\A t \in Threads :
            (th[t].pc = "handler" /\ th'[t].pc = "handler") =>
                /\ UNCHANGED <<tools, handlers>>
                /\ ~RegistryCall
                /\ \A u \in Threads \ {t} :
                       th[u].pc \in {"callTool", "getToolsJson"} => th'[u].pc = th[u].pc]_vars

\* C30 witness: c1's tools/call is in its handler on one thread while c2's
\* tools/call, delivered on the other thread, waits for the mutex.
C30_Witness ==
    /\ th["d1"].pc = "handler" /\ th["d1"].msg.x = Client1
    /\ th["d2"].pc = "callTool" /\ th["d2"].msg.x = Client2
    /\ mutex = "d1"

\* The transport calls of a handler call that returned false
FailedCalls(log) == {i \in 1..Len(log) : ~log[i].ok}

\* C31: a step in which subscribe or publish returns false removes no session
\* and changes none; a call handling an initialize goes on to insert its
\* session when a subscribe returned false; and a call in which a transport
\* call returned false ends without a fault and returns to the transport,
\* which can deliver the next message.
C31_TransportErrorKeepsSessions ==
    /\ [](\A t \in Threads :
            /\ (th[t].plan.act = "initialize" /\ th[t].pc \in {"sendResponse", "done"}) =>
                   /\ th[t].plan.c \in DOMAIN clientSessions
                   /\ clientSessions[th[t].plan.c].gen = th[t].gen
            /\ (th[t].pc = "done" /\ FailedCalls(out[t]) # {}) =>
                   ~fault /\ ENABLED handlerReturn(t))
    /\ [][\A t \in Threads :
            FailedCalls(out'[t]) \ FailedCalls(out[t]) # {} =>
                /\ clientSessions' = clientSessions
                /\ th'[t].pc \in {"handleInitialize_store", "done"}]_vars

\* C31 witness: both subscribes and the publish of c1's initialize returned
\* false, and c1's session is in the table.
C31_Witness ==
    /\ th["d1"].pc = "done" /\ th["d1"].plan.act = "initialize" /\ th["d1"].plan.c = Client1
    /\ FailedCalls(out["d1"]) = {1, 2, 3}
    /\ Client1 \in DOMAIN clientSessions
    /\ ~Holds(getRpcTopic(Client1))

\* C32 (as claimed): when a request of client c1 was delivered (on d1) before
\* another request of c1 (on d2) and both calls are in progress, the response
\* to the second is not published before the response to the first.
C32_ResponseOrder ==
    (/\ th["d1"].pc # "idle" /\ th["d2"].pc # "idle"
     /\ th["d1"].msg.x = th["d2"].msg.x
     /\ Publishes(out["d2"]) # {})
        => Publishes(out["d1"]) # {}

\* C33 (as claimed): every publish of the engine, on a delivery thread or on
\* the embedder's, carries the user properties MCP-COMPONENT-TYPE =
\* "mcp-server" and MCP-MQTT-CLIENT-ID = serverId.
C33_ServerUserProperties ==
    \A t \in Threads \cup {"api"} :
        \A i \in Publishes(out[t]) : out[t][i].props = ServerPropsOf(serverId)

\* C34 (as claimed): a handler call never makes a transport call through
\* mqttClient_ after stop() has set it to null.
C34_NoCallThroughReleased ==
    \A t \in Threads : \A i \in 1..Len(out[t]) : out[t][i] # EvFault

\* C35 (as claimed): while the server runs, once the handler calls on both
\* delivery threads have finished, a client is in the session table exactly
\* when the server holds the subscriptions to its RPC topic and its presence
\* topic, however an initialize and a notifications/disconnected of the
\* same client were interleaved.
C35_RaceKeepsBijection ==
    (phase = "started" /\ running /\ ~fault /\ Completed) =>
        \A c \in ClientIds :
            c \in DOMAIN clientSessions
                <=> (Holds(getRpcTopic(c)) /\ Holds(getClientPresenceTopic(c)))

\* C36 (as claimed): the client-disconnected callback of a session of client
\* c is never delivered while c has a newer session whose client-connected
\* callback has already been delivered.
C36_DisconnectedNotAfterNewerConnected ==
    [][\A t \in Threads :
          (th[t].pc = "cleanupClientSession_callback" /\ th'[t].pc = "done") =>
              LET c == th[t].plan.c
              IN  ~(/\ c \in DOMAIN clientSessions
                    /\ clientSessions[c].gen > th[t].gen
                    /\ clientSessions[c].initialized)]_vars

\* C37 (as claimed): when start() has just returned true the session table is
\* empty, whatever happened in an earlier run.
C37_StartWithEmptyTable ==
    (api.pc = "done" /\ api.op = "start" /\ api.ret) => clientSessions = NoSessions

\* C38 (as claimed): a handler call publishes on the RPC topic of a client,
\* and invokes a tool handler for a client, only when that client has a
\* session in the table.
C38_ResponsesOnlyToSessions ==
    \A t \in Threads : \A i \in 1..Len(out[t]) :
        /\ out[t][i].e = "publish" =>
               \A c \in ClientIds :
                   out[t][i].topic = getRpcTopic(c) => c \in DOMAIN clientSessions
        /\ out[t][i].e = "tool" => th[t].plan.c \in DOMAIN clientSessions

\* C39 (as claimed): while the server runs, a completed call for a JSON-RPC
\* message on an RPC topic whose method is a string has published exactly
\* one message, a response on that client's RPC topic, when the id is an
\* integer or a string, and has published nothing when there is no id.
C39_OneResponsePerRequest ==
    \A t \in Threads :
        (/\ running /\ th[t].pc = "done"
         /\ \E c \in ClientIds : th[t].msg.topic = getRpcTopic(c)
         /\ ~IllFormed(th[t].msg.payload)) =>
            LET id == th[t].msg.payload.id
            IN  /\ (is_number_integer(id) \/ id.t = "str") =>
                       /\ Cardinality(Publishes(out[t])) = 1
                       /\ \A i \in Publishes(out[t]) :
                              /\ out[t][i].topic = th[t].msg.topic
                              /\ out[t][i].body.kind \in {"result", "error"}
                /\ id = JAbsent => Publishes(out[t]) = {}

\* C40 (as claimed): a tool handler's call into the registry of its own
\* server returns: no thread is left blocked on ToolManager::mutex_ inside a
\* tool handler, and the tools/call it serves completes with one response.
C40_ReentrantCallReturns ==
    \A t \in Threads :
        /\ th[t].pc # "deadlocked"
        /\ (th[t].pc = "done" /\ ToolInvocations(t) # {}) =>
               Cardinality(Publishes(out[t])) = 1

=============================================================================
